---------------------------- MODULE Spec2Model ----------------------------
(***************************************************************************)
(* A model of the jtag-taps library: the TAP state-machine driver          *)
(* (src/src/statemachine.rs), the cable back-ends (src/src/cable/*.rs) and *)
(* the scan-chain wrapper Taps (src/src/taps.rs).                          *)
(*                                                                         *)
(* The specifications share the variables:                                 *)
(*   Spec       the JtagSM driver over any cable that honours the Cable    *)
(*              trait's documented contract; the TMS bits the driver       *)
(*              hands the cable are applied to a simulated IEEE 1149.1 TAP *)
(*   CableSpec  one call of one cable back-end, started with the TAP in    *)
(*              ShiftDR / ShiftIR, clock cycle by clock cycle              *)
(*   TapsSpec   the operations of Taps over the JtagSM driver              *)
(*   RoundTripSpec  Taps::read_write_dr over a scan chain of BYPASS        *)
(*              registers and one data register                            *)
(*   QueueSpec  queue_read / queue_read_write / finish_read, the           *)
(*              synchronous reads and flush of the back-ends with a queue  *)
(*   MisuseSpec one write_data / read_write_data with a bits_in_last_byte  *)
(*              outside 1..8                                               *)
(*   ScenarioSpec  Taps over the JtagSM driver on chains of IR lengths 4   *)
(*              and 5, with Taps::detect                                   *)
(*   TapSequenceSpec  change_mode calls batched in the J-Link TAP sequence *)
(*              and the bytes flush sends for them                         *)
(*   BufferSpec the pending command buffer of the batching MPSSE back-end,  *)
(*              by its length, on small and on large data                  *)
(*   BatchSpec  the J-Link TAP sequence and the 0xCD commands sent for it,  *)
(*              by their lengths, on calls of up to 389 bytes               *)
(*   ChainSpec  every operation of Taps, with queue_dr_read and             *)
(*              finish_dr_read over a cable that queues reads up to a      *)
(*              capacity                                                   *)
(*   StatusSpec the status query JLink::new makes, on every value of the   *)
(*              two voltage bytes                                          *)
(***************************************************************************)
EXTENDS Integers, Sequences, FiniteSets, TLC

VARIABLES
    state,      \* JtagSM.state: the driver's recorded TAP state
    tap,        \* the state of the simulated (physical) TAP controller
    op,         \* the operation that was performed last
    from,       \* the recorded state when the last operation was called
    tapFrom,    \* the simulated TAP state when the last operation was called
    calls,      \* the cable calls the last JtagSM operation made, in order
    cable,      \* the cable back-end in use
    args,       \* the arguments of the last operation
    cycles,     \* the clock cycles the last cable call put on the wire
    tdoIn,      \* the TDO level the chain presents on each clock cycle
    ret,        \* the bytes the last call returned (of a Taps operation: the
                \* number of the cable call whose value it returns)
    aborted,    \* the last operation panicked
    pins,       \* the levels the TMS and TDI lines were left at
    taps,       \* Taps.taps: the IR length of each TAP of the chain
    active,     \* Taps.active: the index of the selected TAP, from 0
    chain,      \* the bits held in the data registers of a mock chain
    chainFrom,  \* those bits when the last operation was called
    pipe        \* the queue state of a pipelining cable

vars == <<state, tap, op, from, tapFrom, calls, cable, args, cycles, tdoIn,
          ret, aborted, pins, taps, active, chain, chainFrom, pipe>>

(***************************************************************************)
(* enum JtagState                                                          *)
(***************************************************************************)
Reset == 0
Idle == 1
SelectDR == 2
CaptureDR == 3
ShiftDR == 4
Exit1DR == 5
PauseDR == 6
Exit2DR == 7
UpdateDR == 8
SelectIR == 9
CaptureIR == 10
ShiftIR == 11
Exit1IR == 12
PauseIR == 13
Exit2IR == 14
UpdateIR == 15

JtagState == Reset..UpdateIR

\* enum Register
Register == {"Data", "Instruction"}

(***************************************************************************)
(* The graph JtagSM::new builds: graph[s + 1] is the node of state s,      *)
(* and its edges are <<successor on TMS = 0, successor on TMS = 1>>.       *)
(***************************************************************************)
graph ==
    << <<Idle, Reset>>,           \* reset
       <<Idle, SelectDR>>,        \* idle
       <<CaptureDR, SelectIR>>,   \* selectdr
       <<ShiftDR, Exit1DR>>,      \* capturedr
       <<ShiftDR, Exit1DR>>,      \* shiftdr
       <<PauseDR, UpdateDR>>,     \* exit1dr
       <<PauseDR, Exit2DR>>,      \* pausedr
       <<ShiftDR, UpdateDR>>,     \* exit2dr
       <<Idle, SelectDR>>,        \* updatedr
       <<CaptureIR, Reset>>,      \* selectir
       <<ShiftIR, Exit1IR>>,      \* captureir
       <<ShiftIR, Exit1IR>>,      \* shiftir
       <<PauseIR, UpdateIR>>,     \* exit1ir
       <<PauseIR, Exit2IR>>,      \* pauseir
       <<ShiftIR, UpdateIR>>,     \* exit2ir
       <<Idle, SelectIR>> >>      \* updateir

\* self.graph[s].edges[b]
Edge(s, b) == graph[s + 1][b + 1]

(***************************************************************************)
(* The IEEE 1149.1 TAP controller: the device at the other end of the      *)
(* cable.  TapNext(s, tms) is the state after one TCK cycle.               *)
(***************************************************************************)
TapNext(s, tms) ==
    CASE s = Reset     -> IF tms = 0 THEN Idle      ELSE Reset
      [] s = Idle      -> IF tms = 0 THEN Idle      ELSE SelectDR
      [] s = SelectDR  -> IF tms = 0 THEN CaptureDR ELSE SelectIR
      [] s = CaptureDR -> IF tms = 0 THEN ShiftDR   ELSE Exit1DR
      [] s = ShiftDR   -> IF tms = 0 THEN ShiftDR   ELSE Exit1DR
      [] s = Exit1DR   -> IF tms = 0 THEN PauseDR   ELSE UpdateDR
      [] s = PauseDR   -> IF tms = 0 THEN PauseDR   ELSE Exit2DR
      [] s = Exit2DR   -> IF tms = 0 THEN ShiftDR   ELSE UpdateDR
      [] s = UpdateDR  -> IF tms = 0 THEN Idle      ELSE SelectDR
      [] s = SelectIR  -> IF tms = 0 THEN CaptureIR ELSE Reset
      [] s = CaptureIR -> IF tms = 0 THEN ShiftIR   ELSE Exit1IR
      [] s = ShiftIR   -> IF tms = 0 THEN ShiftIR   ELSE Exit1IR
      [] s = Exit1IR   -> IF tms = 0 THEN PauseIR   ELSE UpdateIR
      [] s = PauseIR   -> IF tms = 0 THEN PauseIR   ELSE Exit2IR
      [] s = Exit2IR   -> IF tms = 0 THEN ShiftIR   ELSE UpdateIR
      [] s = UpdateIR  -> IF tms = 0 THEN Idle      ELSE SelectDR

\* One TCK cycle with TMS at level b, as a function of the state before it.
TapCycle == [b \in {0, 1} |-> [s \in JtagState |-> TapNext(s, b)]]

\* The TAP state after the TMS values of seq, one TCK cycle each
\* (the Cable trait: zero is low, any other value is high).
\* It is computed as the composition of the cycles lo..hi of seq, a
\* function of the state they start in, by halves.
RECURSIVE RunTapFrom(_, _, _)
RunTapFrom(seq, lo, hi) ==
    IF lo > hi THEN [s \in JtagState |-> s]
    ELSE IF lo = hi
    THEN TapCycle[IF seq[lo] = 0 THEN 0 ELSE 1]
    ELSE LET mid == (lo + hi) \div 2
             first == RunTapFrom(seq, lo, mid)
             second == RunTapFrom(seq, mid + 1, hi)
         IN  [s \in JtagState |-> second[first[s]]]

RunTap(s, seq) == RunTapFrom(seq, 1, Len(seq))[s]

(***************************************************************************)
(* JtagSM::get_path: all paths of one length are held in `paths`; each is  *)
(* extended by the 0-edge and then by the 1-edge, and the first extension  *)
(* that ends at the target is returned.                                    *)
(***************************************************************************)
\* struct Path
Path(st, p) == [state |-> st, path |-> p]

\* One pass of `for p in paths`: newpaths in the order the loop pushes them
\* (p1 on the 0-edge, then p2 on the 1-edge, for each p in turn)
get_path_for(paths) ==
    [j \in 1..(2 * Len(paths)) |->
        LET p == paths[(j + 1) \div 2]
            b == (j + 1) % 2
        IN  Path(Edge(p.state, b), Append(p.path, b))] \o <<>>

\* the `loop`: the first new path, in that order, that ends at the target
\* is returned; with none, the new paths are extended in turn
RECURSIVE get_path_loop(_, _)
get_path_loop(paths, target) ==
    LET newpaths == get_path_for(paths)
        hits == {j \in 1..Len(newpaths) : newpaths[j].state = target}
    IN  IF hits # {}
        THEN newpaths[CHOOSE j \in hits : \A k \in hits : j <= k].path
        ELSE get_path_loop(newpaths, target)

\* a search seeded with the 1-edge before the 0-edge
get_path_ones_first(cur, target) ==
    get_path_loop(<<Path(Edge(cur, 1), <<1>>), Path(Edge(cur, 0), <<0>>)>>, target)

\* a search that first resets the TAP with five ones
get_path_through_reset(cur, target) ==
    <<1, 1, 1, 1, 1>> \o
        get_path_loop(<<Path(Edge(Reset, 0), <<0>>), Path(Edge(Reset, 1), <<1>>)>>,
                      target)

get_path(cur, target) ==
    get_path_loop(<<Path(Edge(cur, 0), <<0>>), Path(Edge(cur, 1), <<1>>)>>, target)

\* get_path for every pair of distinct states, computed once:
\* <<current, target, path>>
PathTable ==
    {<<e[1], e[2], get_path(e[1], e[2])>> :
        e \in {x \in JtagState \X JtagState : x[1] # x[2]}}

\* PathTable lookup: what change_mode gets from self.get_path(state)
path_to(cur, target) ==
    (CHOOSE e \in PathTable : e[1] = cur /\ e[2] = target)[3]

(***************************************************************************)
(* Bounds of the model (not program constants).                            *)
(***************************************************************************)
\* JtagSM operations: bytes in a data buffer, bits of its last byte, bits read
SmMaxLen == 1
SmMaxBits == 2
SmMaxRead == 2

\* the data buffers of the JtagSM operations (every byte 0xA5)
SmBuffers == UNION {[1..n -> {165}] : n \in 1..SmMaxLen}

(***************************************************************************)
(* The Cable trait as JtagSM sees it: the calls it makes, and what a cable *)
(* that honours the trait's documentation does to the TAP on each.         *)
(***************************************************************************)
\* cable.change_mode(tms, tdo)
CallChangeMode(tms, tdo) ==
    [fn |-> "change_mode", tms |-> tms, tdo |-> tdo]

\* cable.read_data(bits) / cable.queue_read(bits); ok: the queue accepted it
CallRead(fn, bits, ok) ==
    [fn |-> fn, bits |-> bits, ok |-> ok]

\* cable.write_data / read_write_data / queue_read_write(data, bits, pause_after)
CallWrite(fn, data, bits, pause_after, ok) ==
    [fn |-> fn, data |-> data, bits |-> bits, pause_after |-> pause_after,
     ok |-> ok]

\* The TMS values of a shift of n bits by a cable that honours the trait:
\* low while shifting; with pause_after the last bit is clocked with TMS
\* high (Exit1) and one more cycle with TMS low enters Pause.
ContractShiftTms(n, pause_after) ==
    [i \in 1..(n - 1) |-> 0] \o (IF pause_after THEN <<1, 0>> ELSE <<0>>)

\* What one cable call does to the TAP
CallEffect(t, c) ==
    CASE c.fn = "change_mode" -> RunTap(t, c.tms)
      [] c.fn \in {"read_data", "queue_read"} ->
            IF c.ok THEN RunTap(t, ContractShiftTms(c.bits, FALSE)) ELSE t
      [] OTHER ->
            IF c.ok
            THEN RunTap(t, ContractShiftTms((Len(c.data) - 1) * 8 + c.bits,
                                            c.pause_after))
            ELSE t

RECURSIVE CallsEffect(_, _)
CallsEffect(t, cs) ==
    IF cs = <<>> THEN t ELSE CallsEffect(CallEffect(t, Head(cs)), Tail(cs))

(***************************************************************************)
(* JtagSM.  An operation is followed statement by statement on a record    *)
(* sm = [state: self.state, calls: the cable calls made so far, each with  *)
(* the recorded state `at` which it was made].                             *)
(***************************************************************************)
\* self.cable.<c>(...)
sm_cable(sm, c) ==
    [sm EXCEPT !.calls = Append(@, [call |-> c, at |-> sm.state])]

\* self.state = st
sm_set(sm, st) == [sm EXCEPT !.state = st]

\* mode_reset without `self.state = JtagState::Reset`
sm_mode_reset_keeps_state(sm) ==
    sm_cable(sm, CallChangeMode(<<1, 1, 1, 1, 1, 0>>, TRUE))

\* JtagSM::mode_reset
sm_mode_reset(sm) ==
    sm_set(sm_cable(sm, CallChangeMode(<<1, 1, 1, 1, 1, 0>>, TRUE)), Reset)

\* change_mode with the path handed over last bit first
sm_change_mode_path_reversed(sm, target) ==
    IF sm.state = target THEN sm
    ELSE LET path == path_to(sm.state, target)
         IN  sm_set(sm_cable(sm, CallChangeMode(
                                     [i \in 1..Len(path) |-> path[Len(path) + 1 - i]],
                                     TRUE)),
                    target)

\* JtagSM::change_mode(state)
sm_change_mode(sm, target) ==
    IF sm.state = target THEN sm
    ELSE sm_set(sm_cable(sm, CallChangeMode(path_to(sm.state, target), TRUE)),
                target)

\* `if reg == Register::Data { change_mode(ShiftDR) } else { change_mode(ShiftIR) }`
sm_to_shift(sm, reg) ==
    IF reg = "Data" THEN sm_change_mode(sm, ShiftDR)
    ELSE sm_change_mode(sm, ShiftIR)

\* a write that never records the Pause state
sm_pause_dropped(sm, reg, pause_after) == sm

\* `if pause_after { self.state = PauseDR / PauseIR }`
sm_pause(sm, reg, pause_after) ==
    IF pause_after
    THEN (IF reg = "Data" THEN sm_set(sm, PauseDR) ELSE sm_set(sm, PauseIR))
    ELSE sm

\* JtagSM::read_reg(reg, bits)
sm_read_reg(sm, reg, bits) ==
    sm_cable(sm_to_shift(sm, reg), CallRead("read_data", bits, TRUE))

\* JtagSM::queue_read(reg, bits); ok is what cable.queue_read returns
sm_queue_read(sm, reg, bits, ok) ==
    sm_cable(sm_to_shift(sm, reg), CallRead("queue_read", bits, ok))

\* JtagSM::write_reg(reg, data, bits, pause_after)
sm_write_reg(sm, reg, data, bits, pause_after) ==
    sm_pause(sm_cable(sm_to_shift(sm, reg),
                      CallWrite("write_data", data, bits, pause_after, TRUE)),
             reg, pause_after)

\* JtagSM::read_write_reg(reg, data, bits, pause_after)
sm_read_write_reg(sm, reg, data, bits, pause_after) ==
    sm_pause(sm_cable(sm_to_shift(sm, reg),
                      CallWrite("read_write_data", data, bits, pause_after, TRUE)),
             reg, pause_after)

\* JtagSM::queue_read_write(reg, data, bits, pause_after); ok is what
\* cable.queue_read_write returns
sm_queue_read_write(sm, reg, data, bits, pause_after, ok) ==
    sm_pause(sm_cable(sm_to_shift(sm, reg),
                      CallWrite("queue_read_write", data, bits, pause_after, ok)),
             reg, pause_after)

\* The driver as an operation finds it
Self == [state |-> state, calls |-> <<>>]

\* The cable calls of cs, without the states they were made at
CallsOf(cs) == [i \in 1..Len(cs) |-> cs[i].call]

\* One JtagSM operation `name` with arguments a has run and left sm
Done(name, a, sm) ==
    /\ op' = name
    /\ args' = a
    /\ from' = state
    /\ tapFrom' = tap
    /\ calls' = sm.calls
    /\ tap' = CallsEffect(tap, CallsOf(sm.calls))
    /\ state' = sm.state
    /\ UNCHANGED <<cable, cycles, tdoIn, ret, aborted, pins, taps, active, chain,
                   chainFrom, pipe>>

mode_reset == Done("mode_reset", <<>>, sm_mode_reset(Self))

change_mode(target) ==
    Done("change_mode", [state |-> target], sm_change_mode(Self, target))

read_reg(reg, bits) ==
    Done("read_reg", [reg |-> reg, bits |-> bits], sm_read_reg(Self, reg, bits))

queue_read(reg, bits, ok) ==
    Done("queue_read", [reg |-> reg, bits |-> bits],
         sm_queue_read(Self, reg, bits, ok))

write_reg(reg, data, bits, pause_after) ==
    Done("write_reg",
         [reg |-> reg, data |-> data, bits |-> bits, pause_after |-> pause_after],
         sm_write_reg(Self, reg, data, bits, pause_after))

read_write_reg(reg, data, bits, pause_after) ==
    Done("read_write_reg",
         [reg |-> reg, data |-> data, bits |-> bits, pause_after |-> pause_after],
         sm_read_write_reg(Self, reg, data, bits, pause_after))

queue_read_write(reg, data, bits, pause_after, ok) ==
    Done("queue_read_write",
         [reg |-> reg, data |-> data, bits |-> bits, pause_after |-> pause_after],
         sm_queue_read_write(Self, reg, data, bits, pause_after, ok))

\* JtagSM::new(cable), with the TAP in any state p before it: the reset
\* sequence is handed to the cable and the struct is built with state Reset
Init ==
    /\ \E p \in JtagState :
          /\ tapFrom = p
          /\ tap = RunTap(p, <<1, 1, 1, 1, 1, 0>>)
    /\ state = Reset
    /\ from = Reset
    /\ op = "new"
    /\ args = <<>>
    /\ calls = <<[call |-> CallChangeMode(<<1, 1, 1, 1, 1, 0>>, TRUE),
                  at |-> Reset]>>
    /\ cable = "contract"
    /\ cycles = <<>>
    /\ tdoIn = <<>>
    /\ ret = <<>>
    /\ aborted = FALSE
    /\ pins = [tms |-> 0, tdi |-> 1]
    /\ taps = <<>>
    /\ active = 0
    /\ chain = <<>>
    /\ chainFrom = <<>>
    /\ pipe = <<>>

Next ==
    \/ mode_reset
    \/ \E t \in JtagState : change_mode(t)
    \/ \E r \in Register, b \in 1..SmMaxRead : read_reg(r, b)
    \/ \E r \in Register, b \in 1..SmMaxRead, ok \in BOOLEAN : queue_read(r, b, ok)
    \/ \E r \in Register, d \in SmBuffers, b \in 1..SmMaxBits, pa \in BOOLEAN :
          write_reg(r, d, b, pa)
    \/ \E r \in Register, d \in SmBuffers, b \in 1..SmMaxBits, pa \in BOOLEAN :
          read_write_reg(r, d, b, pa)
    \/ \E r \in Register, d \in SmBuffers, b \in 1..SmMaxBits, pa \in BOOLEAN,
          ok \in BOOLEAN : queue_read_write(r, d, b, pa, ok)

Spec == Init /\ [][Next]_vars

(***************************************************************************)
(* The cable back-ends.  A call is modelled by what it puts on the wire:   *)
(* cycles, one record [tms, tdi] per TCK cycle, in the order the adapter   *)
(* clocks them.  tdo[j] is the TDO level the chain presents on the j-th    *)
(* cycle of the call.  A call yields                                       *)
(*   [cycles, ret: the bytes returned, aborted: it panicked,               *)
(*    pins: the levels TMS and TDI are left at].                           *)
(***************************************************************************)
\* bounds: bytes in a data buffer, and the bits already batched in the
\* J-Link TAP sequence when the call is made
MaxLen == 2
MaxPending == 2

\* the byte values data buffers are made of: 0x01, 0x96, 0xFF
ByteVals == {1, 150, 255}
Buffers == UNION {[1..n -> ByteVals] : n \in 1..MaxLen}

\* the most cycles one call clocks, and the TDO streams: all ones, or a
\* single one on cycle k
MaxCycles == 8 * MaxLen + 1
TdoStreams ==
    {[j \in 1..MaxCycles |-> 1]}
        \cup {[j \in 1..MaxCycles |-> IF j = k THEN 1 ELSE 0] : k \in 1..MaxCycles}

\* x >> i & 1, x >> k, (x << k) as u8, a | b on u8
Bit(x, i) == (x \div (2 ^ i)) % 2
Shr(x, k) == x \div (2 ^ k)
Shl(x, k) == (x * (2 ^ k)) % 256
RECURSIVE OrFrom(_, _, _)
OrFrom(a, b, i) ==
    IF i > 7 THEN 0
    ELSE (IF Bit(a, i) = 1 \/ Bit(b, i) = 1 THEN 2 ^ i ELSE 0) + OrFrom(a, b, i + 1)
Or(a, b) == OrFrom(a, b, 0)

Cycle(tms, tdi) == [tms |-> tms, tdi |-> tdi]

\* a call that ran to its end / a call that panicked having clocked cyc
Returned(cyc, r, p) == [cycles |-> cyc, ret |-> r, aborted |-> FALSE, pins |-> p]
Panicked(cyc, p) == [cycles |-> cyc, ret |-> <<>>, aborted |-> TRUE, pins |-> p]

\* the lines after the cycles cyc, having been at p before
PinsAfter(cyc, p) ==
    IF cyc = <<>> THEN p
    ELSE [tms |-> cyc[Len(cyc)].tms, tdi |-> cyc[Len(cyc)].tdi]

(***************************************************************************)
(* Gpio (src/src/cable/gpio.rs)                                            *)
(***************************************************************************)
\* the loop of Gpio::read_data, from sample i on: value is never cleared
RECURSIVE Gpio_read_loop(_, _, _, _, _, _)
Gpio_read_loop(i, bits, value, b, buf, tdo) ==
    IF i = bits THEN Append(buf, value)
    ELSE LET value2 == Or(value, Shl(tdo[i + 1], b))
             b2 == (b + 1) % 8
         IN  Gpio_read_loop(i + 1, bits, value2, b2,
                            IF b2 = 0 THEN Append(buf, value2) ELSE buf, tdo)

\* Gpio::read_data(bits): neither TMS nor TDI is driven
Gpio_read_data(bits, p, tdo) ==
    Returned([j \in 1..bits |-> Cycle(p.tms, p.tdi)],
             Gpio_read_loop(0, bits, 0, 0, <<>>, tdo), p)

\* the TDO samples of cnt cycles from cycle base on, sample b at bit b
RECURSIVE Gpio_byte(_, _, _)
Gpio_byte(tdo, base, cnt) ==
    IF cnt = 0 THEN 0
    ELSE Gpio_byte(tdo, base, cnt - 1) + tdo[base + cnt - 1] * (2 ^ (cnt - 1))

\* Gpio::read_write_data(data, bits, pause_after): TDI is (d >> (7 - b)) & 1
Gpio_read_write_data(data, bits0, pause_after, p, tdo) ==
    LET bits == IF bits0 < 1 THEN 1 ELSE IF bits0 > 8 THEN 8 ELSE bits0
        n == Len(data)
        total == 8 * (n - 1) + bits
        cyc == [j \in 1..total |->
                   Cycle(IF pause_after /\ j = total THEN 1 ELSE p.tms,
                         Bit(data[((j - 1) \div 8) + 1], 7 - ((j - 1) % 8)))]
        out == [k \in 1..n |->
                   Gpio_byte(tdo, 8 * (k - 1) + 1, IF k < n THEN 8 ELSE bits)]
    IN  IF n = 0 THEN Panicked(<<>>, p)
        ELSE Returned(cyc, out, PinsAfter(cyc, p))

\* Gpio::write_data
Gpio_write_data(data, bits, pause_after, p, tdo) ==
    [Gpio_read_write_data(data, bits, pause_after, p, tdo) EXCEPT !.ret = <<>>]

(***************************************************************************)
(* Ft232r (src/src/cable/ft232r.rs) and UsbBlaster                         *)
(* (src/src/cable/usbblaster.rs): every cycle is written as a pair of      *)
(* bytes, clock low then clock high, each setting TMS and TDI.             *)
(***************************************************************************)
\* The cycles of read_write_data of both: data LSB first; with pause_after
\* the last bit is clocked with TMS high and then once more with TMS low
Bitbang_cycles(data, bits, pause_after) ==
    LET n == Len(data)
        total == 8 * (n - 1) + bits
        dat == [j \in 1..total |->
                   Cycle(0, Bit(data[((j - 1) \div 8) + 1], (j - 1) % 8))]
    IN  IF pause_after
        THEN SubSeq(dat, 1, total - 1)
                 \o <<Cycle(1, dat[total].tdi), Cycle(0, dat[total].tdi)>>
        ELSE dat

\* select_bit of both: one bit per sample of recv, eight to a byte
RECURSIVE select_bit_loop(_, _, _, _)
select_bit_loop(recv, byte, bit, recv_bits) ==
    LET byte2 == IF Head(recv) # 0 THEN Or(byte, Shl(1, bit)) ELSE byte
        full == bit + 1 = 8
        out == IF full THEN Append(recv_bits, byte2) ELSE recv_bits
        byte3 == IF full THEN 0 ELSE byte2
        bit3 == IF full THEN 0 ELSE bit + 1
    IN  IF Tail(recv) = <<>>
        THEN (IF bit3 > 0 THEN Append(out, byte3) ELSE out)
        ELSE select_bit_loop(Tail(recv), byte3, bit3, out)

\* the TDO level in the response to each byte written: Ft232r gets one
\* for each of the two bytes of a cycle, UsbBlaster one per cycle (READ_CMD
\* is set in the clock-high byte only)
Ft232r_recv(cyc, tdo) == [j \in 1..(2 * Len(cyc)) |-> tdo[(j + 1) \div 2]]
UsbBlaster_recv(cyc, tdo) == [j \in 1..Len(cyc) |-> tdo[j]]

\* Ft232r::select_bit drops the first byte of each pair
Ft232r_select_bit(recv) ==
    select_bit_loop([k \in 1..(Len(recv) \div 2) |-> recv[2 * k]], 0, 0, <<>>)
UsbBlaster_select_bit(recv) == select_bit_loop(recv, 0, 0, <<>>)

\* Ft232r::read_write_data / UsbBlaster::read_write_data
Ft232r_read_write_data(data, bits, pause_after, p, tdo) ==
    IF bits > 8 \/ bits = 0 \/ Len(data) = 0 THEN Panicked(<<>>, p)
    ELSE LET cyc == Bitbang_cycles(data, bits, pause_after)
         IN  Returned(cyc, Ft232r_select_bit(Ft232r_recv(cyc, tdo)), PinsAfter(cyc, p))

UsbBlaster_read_write_data(data, bits, pause_after, p, tdo) ==
    IF bits > 8 \/ bits = 0 \/ Len(data) = 0 THEN Panicked(<<>>, p)
    ELSE LET cyc == Bitbang_cycles(data, bits, pause_after)
         IN  Returned(cyc, UsbBlaster_select_bit(UsbBlaster_recv(cyc, tdo)),
                      PinsAfter(cyc, p))

\* Ft232r::write_data / UsbBlaster::write_data
Ft232r_write_data(data, bits, pause_after, p, tdo) ==
    [Ft232r_read_write_data(data, bits, pause_after, p, tdo) EXCEPT !.ret = <<>>]

UsbBlaster_write_data(data, bits, pause_after, p, tdo) ==
    [UsbBlaster_read_write_data(data, bits, pause_after, p, tdo)
        EXCEPT !.ret = <<>>]

\* Ft232r::read_data(bits): TMS low, TDI high
Ft232r_read_data(bits, p, tdo) ==
    IF bits = 0 THEN Panicked(<<>>, p)
    ELSE LET cyc == [j \in 1..bits |-> Cycle(0, 1)]
         IN  Returned(cyc, Ft232r_select_bit(Ft232r_recv(cyc, tdo)), PinsAfter(cyc, p))

\* UsbBlaster::read_data(bits): read_write_data of 0xff bytes
UsbBlaster_read_data(bits, p, tdo) ==
    IF bits = 0 THEN Panicked(<<>>, p)
    ELSE UsbBlaster_read_write_data([k \in 1..((bits + 7) \div 8) |-> 255],
                                    IF bits % 8 = 0 THEN 8 ELSE bits % 8,
                                    FALSE, p, tdo)

(***************************************************************************)
(* Mpsse (src/src/cable/mpsse.rs, and the earlier src/src/cable/jtagkey.rs)*)
(* builds a list of MPSSE commands.  A command clocks whole bytes          *)
(* ("data"), the low len bits of one byte ("bits"), or the low len bits of *)
(* one byte on TMS with TDI held ("tms"); read says whether the adapter    *)
(* answers with the TDO samples.                                           *)
(***************************************************************************)
clock_data(data, read) ==
    [cmd |-> "data", data |-> data, tdi |-> 0, len |-> 8 * Len(data), read |-> read]
clock_bits(byte, len, read) ==
    [cmd |-> "bits", data |-> <<byte>>, tdi |-> 0, len |-> len, read |-> read]
clock_tms(byte, tdi, len, read) ==
    [cmd |-> "tms", data |-> <<byte>>, tdi |-> tdi, len |-> len, read |-> read]

\* the cycles of one command, TMS being at level tms before it
CmdCycles(c, tms) ==
    [j \in 1..c.len |->
        IF c.cmd = "tms"
        THEN Cycle(Bit(c.data[1], j - 1), c.tdi)
        ELSE Cycle(tms, Bit(c.data[((j - 1) \div 8) + 1], (j - 1) % 8))]

\* the cycles of a command list
RECURSIVE CmdsCycles(_, _)
CmdsCycles(cmds, tms) ==
    IF cmds = <<>> THEN <<>>
    ELSE LET cyc == CmdCycles(Head(cmds), tms)
         IN  cyc \o CmdsCycles(Tail(cmds), PinsAfter(cyc, [tms |-> tms, tdi |-> 0]).tms)

\* The adapter's answer to one command whose first cycle is cycle base: a
\* byte per eight samples of "data"; for "bits" and "tms" one byte into
\* which the samples were shifted from the top, so that the last sample is
\* bit 7 and the bits below the first sample are stale (all at level junk)
CmdResponse(c, tdo, base, junk) ==
    IF ~c.read THEN <<>>
    ELSE IF c.cmd = "data"
    THEN [k \in 1..Len(c.data) |-> Gpio_byte(tdo, base + 8 * (k - 1), 8)]
    ELSE <<Shl(Gpio_byte(tdo, base, c.len), 8 - c.len)
              + junk * ((2 ^ (8 - c.len)) - 1)>>

RECURSIVE CmdsResponse(_, _, _, _)
CmdsResponse(cmds, tdo, base, junk) ==
    IF cmds = <<>> THEN <<>>
    ELSE CmdResponse(Head(cmds), tdo, base, junk)
             \o CmdsResponse(Tail(cmds), tdo, base + Head(cmds).len, junk)

\* Mpsse::write_data of mpsse.rs: the last bit goes out with clock_tms_out
Mpsse_write_cmds(data, bits0, pause_after) ==
    LET bits == bits0 - 1
        last_byte == data[Len(data)]
        last_bit == Bit(last_byte, bits)
    IN  (IF Len(data) > 1
         THEN <<clock_data(SubSeq(data, 1, Len(data) - 1), FALSE)>> ELSE <<>>)
        \o (IF bits >= 1 THEN <<clock_bits(last_byte, bits, FALSE)>> ELSE <<>>)
        \o (IF pause_after THEN <<clock_tms(1, last_bit, 2, FALSE)>>
            ELSE <<clock_tms(0, last_bit, 1, FALSE)>>)

Mpsse_write_data(data, bits, pause_after, p, tdo) ==
    IF bits > 8 \/ bits = 0 \/ Len(data) = 0 THEN Panicked(<<>>, p)
    ELSE LET cyc == CmdsCycles(Mpsse_write_cmds(data, bits, pause_after), p.tms)
         IN  Returned(cyc, <<>>, PinsAfter(cyc, p))

\* Mpsse::write_data of jtagkey.rs: clock_bits_out only if bits > 1
JtagKey_write_cmds(data, bits0, pause_after) ==
    LET bits == bits0 - 1
        last_byte == data[Len(data)]
        last_bit == Bit(last_byte, bits)
    IN  (IF Len(data) > 1
         THEN <<clock_data(SubSeq(data, 1, Len(data) - 1), FALSE)>> ELSE <<>>)
        \o (IF bits > 1 THEN <<clock_bits(last_byte, bits, FALSE)>> ELSE <<>>)
        \o (IF pause_after THEN <<clock_tms(1, last_bit, 2, FALSE)>>
            ELSE <<clock_tms(0, last_bit, 1, FALSE)>>)

JtagKey_write_data(data, bits, pause_after, p, tdo) ==
    IF bits > 8 \/ bits = 0 \/ Len(data) = 0 THEN Panicked(<<>>, p)
    ELSE LET cyc == CmdsCycles(JtagKey_write_cmds(data, bits, pause_after), p.tms)
         IN  Returned(cyc, <<>>, PinsAfter(cyc, p))

\* Mpsse::read_write_data of jtagkey.rs is unimplemented!()
JtagKey_read_write_data(data, bits, pause_after, p, tdo) == Panicked(<<>>, p)

\* Mpsse::queue_read: the commands and the entry of queued_read_state
Mpsse_queue_read(orig_bits) ==
    LET bytes == orig_bits \div 8
        bits == orig_bits - bytes * 8
    IN  [cmds |-> (IF bytes > 0
                   THEN <<clock_data([k \in 1..bytes |-> 255], TRUE)>> ELSE <<>>)
                  \o (IF bits > 0 THEN <<clock_bits(255, bits, TRUE)>> ELSE <<>>),
         entry |-> <<orig_bits, IF bits > 0 THEN bytes + 1 ELSE bytes, FALSE, FALSE>>]

\* Mpsse::queue_read_write: the entry is (bits, bytes, write, pause)
Mpsse_queue_read_write(data, bits0, pause_after) ==
    LET total_bits == (Len(data) - 1) * 8 + bits0
        bits == bits0 - 1
        last_byte == data[Len(data)]
        last_bit == Bit(last_byte, bits)
        read_bytes == 1 + (IF Len(data) > 1 THEN Len(data) - 1 ELSE 0)
                        + (IF bits >= 1 THEN 1 ELSE 0)
                        + (IF pause_after THEN 1 ELSE 0)
    IN  [cmds |-> (IF Len(data) > 1
                   THEN <<clock_data(SubSeq(data, 1, Len(data) - 1), TRUE)>>
                   ELSE <<>>)
                  \o (IF bits >= 1 THEN <<clock_bits(last_byte, bits, TRUE)>> ELSE <<>>)
                  \o (IF pause_after THEN <<clock_tms(1, last_bit, 1, TRUE)>> ELSE <<>>)
                  \o <<clock_tms(0, last_bit, 1, TRUE)>>,
         entry |-> <<total_bits, read_bytes, TRUE, pause_after>>]

\* the outcome of Mpsse::finish_read: the buffer, or a panic
Buf(buf) == [panic |-> FALSE, buf |-> buf]
Panic == [panic |-> TRUE, buf |-> <<>>]

\* Mpsse::finish_read(bits) for the queued entry, queued_reads being resp.
\* The entry is taken apart as (orig_bits, bytes, pause_after, write).  A
\* shift of a u8 by 8 panics when overflow checks are on and shifts by
\* 8 % 8 when they are off.
Mpsse_finish_read(entry, bits0, resp, overflow_checks) ==
    LET orig_bits == entry[1]
        bytes == entry[2]
        pause_after == entry[3]
        write == entry[4]
        buf0 == SubSeq(resp, 1, bytes)
        buf == IF pause_after /\ buf0 # <<>>
               THEN SubSeq(buf0, 1, Len(buf0) - 1) ELSE buf0
        len == Len(buf)
        bits == bits0 - 1
        sh == 8 - (bits % 8)
        buf2 == [buf EXCEPT ![len] = Shr(@, 7)]
        buf3 == [buf2 EXCEPT ![len - 1] = Shr(@, sh % 8)]
        last_recv == buf3[len] % 2
        buf4 == [buf3 EXCEPT ![len - 1] = Or(@, Shl(last_recv, bits % 8))]
    IN  IF bits0 # orig_bits THEN Panic
        ELSE IF write
        THEN IF len = 0 THEN Panic
             ELSE IF bits >= 1
             THEN IF len < 2 \/ (sh = 8 /\ overflow_checks) THEN Panic
                  ELSE Buf(SubSeq(buf4, 1, len - 1))
             ELSE Buf(buf2)
        ELSE IF bits0 % 8 # 0
        THEN IF len = 0 THEN Panic
             ELSE Buf([buf EXCEPT ![len] = Shr(@, 8 - (bits0 % 8))])
        ELSE Buf(buf)

\* a queued request q sent and finished straight away
Mpsse_xfer(q, bits, p, tdo, junk, overflow_checks) ==
    LET cyc == CmdsCycles(q.cmds, p.tms)
        out == Mpsse_finish_read(q.entry, bits, CmdsResponse(q.cmds, tdo, 1, junk),
                                 overflow_checks)
    IN  IF out.panic THEN Panicked(cyc, PinsAfter(cyc, p))
        ELSE Returned(cyc, out.buf, PinsAfter(cyc, p))

\* Mpsse::read_data and Mpsse::read_write_data of mpsse.rs
Mpsse_read_data(bits, p, tdo, junk, overflow_checks) ==
    Mpsse_xfer(Mpsse_queue_read(bits), bits, p, tdo, junk, overflow_checks)

Mpsse_read_write_data(data, bits, pause_after, p, tdo, junk, overflow_checks) ==
    IF bits > 8 \/ bits = 0 \/ Len(data) = 0 THEN Panicked(<<>>, p)
    ELSE Mpsse_xfer(Mpsse_queue_read_write(data, bits, pause_after),
                    (Len(data) - 1) * 8 + bits, p, tdo, junk, overflow_checks)

\* Mpsse::read_data of jtagkey.rs
JtagKey_read_data(bits0, p, tdo, junk) ==
    LET bytes0 == bits0 \div 8
        bits == bits0 - bytes0 * 8
        cmds == (IF bytes0 > 0
                 THEN <<clock_data([k \in 1..bytes0 |-> 255], TRUE)>> ELSE <<>>)
                \o (IF bits > 0 THEN <<clock_bits(255, bits, TRUE)>> ELSE <<>>)
        cyc == CmdsCycles(cmds, p.tms)
        buf == CmdsResponse(cmds, tdo, 1, junk)
    IN  Returned(cyc,
                 IF bits > 0 THEN [buf EXCEPT ![Len(buf)] = Shr(@, 8 - bits)]
                 ELSE buf,
                 PinsAfter(cyc, p))

(***************************************************************************)
(* JLink (src/src/cable/jlink.rs) collects TMS and TDI bits in tms_buf and *)
(* tdo_buf, send_bits of them, and sends them as one TAP sequence.         *)
(***************************************************************************)
\* the loop of bit_append from source bit i on
RECURSIVE bit_append_loop(_, _, _, _, _, _)
bit_append_loop(dst, byte, dst_bits, src, src_bits, i) ==
    IF i >= src_bits
    THEN (IF dst_bits % 8 # 0 THEN Append(dst, byte) ELSE dst)
    ELSE LET byte2 == IF Bit(src[(i \div 8) + 1], i % 8) # 0
                      THEN Or(byte, Shl(1, dst_bits % 8)) ELSE byte
             full == (dst_bits + 1) % 8 = 0
         IN  bit_append_loop(IF full THEN Append(dst, byte2) ELSE dst,
                             IF full THEN 0 ELSE byte2,
                             dst_bits + 1, src, src_bits, i + 1)

bit_append(dst, dst_bits, src, src_bits, src_skip) ==
    IF dst # <<>> /\ dst_bits % 8 # 0
    THEN bit_append_loop(SubSeq(dst, 1, Len(dst) - 1), dst[Len(dst)], dst_bits,
                         src, src_bits, src_skip)
    ELSE bit_append_loop(dst, 0, dst_bits, src, src_bits, src_skip)

\* the state of the TAP sequence being collected
JLinkSeq(tms_buf, tdo_buf, send_bits) ==
    [tms_buf |-> tms_buf, tdo_buf |-> tdo_buf, send_bits |-> send_bits]

\* JLink::tap_sequence
tap_sequence(jl, tms, tdo, bits) ==
    JLinkSeq(bit_append(jl.tms_buf, jl.send_bits, tms, bits, 0),
             bit_append(jl.tdo_buf, jl.send_bits, tdo, bits, 0),
             jl.send_bits + bits)

\* JLink::send_tdo; `1 << (bits-1)` is computed in u8 and, where the build
\* does not check overflow, with bits - 1 wrapped and the shift taken % 8
send_tdo(jl, data, bits, pause_after) ==
    LET total_bits == (Len(data) - 1) * 8 + bits
        len == Len(data)
        tms0 == [k \in 1..len |->
                    IF pause_after /\ k = len THEN Shl(1, ((bits + 255) % 256) % 8)
                    ELSE 0]
        extra == pause_after /\ total_bits % 8 = 0
    IN  tap_sequence(jl,
                     IF extra THEN Append(tms0, 0) ELSE tms0,
                     IF extra THEN Append(data, 255) ELSE data,
                     IF pause_after THEN total_bits + 1 ELSE total_bits)

\* the TAP sequence collected so far when the call is made: a change_mode
\* of pending bits with TDI high, not yet sent
JLink_pending(pending) ==
    IF pending = 0 THEN JLinkSeq(<<>>, <<>>, 0)
    ELSE tap_sequence(JLinkSeq(<<>>, <<>>, 0), <<1>>, <<255>>, pending)

\* the cycles of bits first..(last - 1) of the TAP sequence jl
JLink_cycles(jl, first, last) ==
    [j \in 1..(last - first) |->
        LET i == first + j - 1
        IN  Cycle(Bit(jl.tms_buf[(i \div 8) + 1], i % 8),
                  Bit(jl.tdo_buf[(i \div 8) + 1], i % 8))]

\* the adapter's answer to a TAP sequence of send_bits bits, the last
\* send_bits - first of which sample tdo: ceil(send_bits / 8) bytes
JLink_response(first, send_bits, tdo, junk) ==
    [k \in 1..((send_bits + 7) \div 8) |->
        LET bit(i) == IF i < first THEN junk
                      ELSE IF i < send_bits THEN tdo[i - first + 1] ELSE 0
        IN  bit(8 * k - 8) + 2 * bit(8 * k - 7) + 4 * bit(8 * k - 6)
                + 8 * bit(8 * k - 5) + 16 * bit(8 * k - 4) + 32 * bit(8 * k - 3)
                + 64 * bit(8 * k - 2) + 128 * bit(8 * k - 1)]

\* What stops send_tdo: data[len - 1] of an empty buffer, `1 << (bits-1)`
\* overflowing in a build that checks it, src[i / 8] beyond the buffer in
\* bit_append.  Nothing has been sent by then.
send_tdo_panics(data, bits, pause_after, overflow_checks) ==
    LET total_bits == (Len(data) - 1) * 8 + bits
        extra == pause_after /\ total_bits % 8 = 0
    IN  \/ Len(data) = 0
        \/ pause_after /\ overflow_checks /\ (bits = 0 \/ bits > 8)
        \/ (IF pause_after THEN total_bits + 1 ELSE total_bits)
               > 8 * (IF extra THEN Len(data) + 1 ELSE Len(data))

\* JLink::write_data
JLink_write_data(data, bits, pause_after, p, tdo, pending, overflow_checks) ==
    IF send_tdo_panics(data, bits, pause_after, overflow_checks)
    THEN Panicked(<<>>, p)
    ELSE LET jl == send_tdo(JLink_pending(pending), data, bits, pause_after)
             cyc == JLink_cycles(jl, pending, jl.send_bits)
         IN  Returned(cyc, <<>>, PinsAfter(cyc, p))

\* JLink::queue_read_write, then JLink::finish_read(bits): the bits of the
\* answer from the queued send_bits on
JLink_queue_finish(data, bits0, pause_after, bits, p, tdo, pending, junk) ==
    LET jl == send_tdo(JLink_pending(pending), data, bits0, pause_after)
        cyc == JLink_cycles(jl, pending, jl.send_bits)
        queued_reads == JLink_response(pending, jl.send_bits, tdo, junk)
    IN  Returned(cyc, bit_append(<<>>, 0, queued_reads, pending + bits, pending),
                 PinsAfter(cyc, p))

\* JLink::read_write_data
JLink_read_write_data(data, bits, pause_after, p, tdo, pending, junk, checks) ==
    IF send_tdo_panics(data, bits, pause_after, checks)
    THEN Panicked(<<>>, p)
    ELSE JLink_queue_finish(data, bits, pause_after, (Len(data) - 1) * 8 + bits,
                            p, tdo, pending, junk)

\* JLink::read_data: queue_read(bits), then finish_read(bits)
JLink_read_data(bits, p, tdo, pending, junk) ==
    IF bits = 0 THEN Panicked(<<>>, p)
    ELSE JLink_queue_finish([k \in 1..((bits + 7) \div 8) |-> 255],
                            IF bits % 8 = 0 THEN 8 ELSE bits % 8,
                            FALSE, bits, p, tdo, pending, junk)

(***************************************************************************)
(* change_mode(tms, tdo) of the back-ends                                  *)
(***************************************************************************)
\* the TMS sequences handed to change_mode: elements are usize, any value
\* but 0 standing for high
MaxTms == 8
TmsSeqs ==
    UNION {[1..n -> {0, 1}] : n \in 1..MaxTms} \cup UNION {[1..n -> {0, 2}] : n \in 1..2}

Level(b) == IF b THEN 1 ELSE 0

\* cnt elements of tms from tms[base] on, element i at bit i:
\* `if *x != 0 { buf |= 1 << count }`
RECURSIVE TmsByte(_, _, _)
TmsByte(tms, base, cnt) ==
    IF cnt = 0 THEN 0
    ELSE TmsByte(tms, base, cnt - 1)
             + (IF tms[base + cnt - 1] # 0 THEN 2 ^ (cnt - 1) ELSE 0)

\* Gpio::change_mode; Ft232r::change_mode and UsbBlaster::change_mode
\* write the same levels as pairs of bytes
Gpio_change_mode(tms, tdo, p) ==
    LET cyc == [j \in 1..Len(tms) |-> Cycle(IF tms[j] = 0 THEN 0 ELSE 1, Level(tdo))]
    IN  Returned(cyc, <<>>, [tms |-> PinsAfter(cyc, p).tms, tdi |-> Level(tdo)])

Ft232r_change_mode(tms, tdo, p) ==
    LET cyc == [j \in 1..Len(tms) |-> Cycle(IF tms[j] # 0 THEN 1 ELSE 0, Level(tdo))]
    IN  Returned(cyc, <<>>, PinsAfter(cyc, p))

UsbBlaster_change_mode(tms, tdo, p) ==
    LET cyc == [j \in 1..Len(tms) |-> Cycle(IF tms[j] # 0 THEN 1 ELSE 0, Level(tdo))]
    IN  Returned(cyc, <<>>, PinsAfter(cyc, p))

\* Mpsse::change_mode (mpsse.rs and jtagkey.rs alike): a clock_tms_out for
\* every 7 elements, and one more for the count left over, be it 0
Mpsse_change_mode_cmds(tms, tdo) ==
    LET n == Len(tms)
    IN  [k \in 1..(n \div 7) |->
            clock_tms(TmsByte(tms, 7 * (k - 1) + 1, 7), Level(tdo), 7, FALSE)]
        \o <<clock_tms(TmsByte(tms, 7 * (n \div 7) + 1, n % 7), Level(tdo), n % 7,
                       FALSE)>>

\* A clock_tms_out of length 0: the command carries `len - 1` in a u8.  With
\* overflow checks the builder panics; without them the length byte is 0xff
\* and the adapter, which reads its low three bits, clocks 8 cycles.
Mpsse_change_mode(tms, tdo, p, overflow_checks) ==
    LET cmds == Mpsse_change_mode_cmds(tms, tdo)
        wrapped == [k \in 1..Len(cmds) |->
                       IF cmds[k].len = 0 THEN [cmds[k] EXCEPT !.len = 8] ELSE cmds[k]]
        cyc == CmdsCycles(wrapped, p.tms)
    IN  IF overflow_checks /\ \E k \in 1..Len(cmds) : cmds[k].len = 0
        THEN Panicked(<<>>, p)
        ELSE Returned(cyc, <<>>, PinsAfter(cyc, p))

\* JLink::change_mode: the TMS bits packed eight to a byte, TDI bytes of
\* 0xff or 0, appended to the TAP sequence
JLink_change_mode_seq(jl, tms, tdo) ==
    LET n == Len(tms)
        buf == [k \in 1..((n + 7) \div 8) |->
                   TmsByte(tms, 8 * (k - 1) + 1, IF 8 * k <= n THEN 8 ELSE n % 8)]
        tdo_bytes == [k \in 1..Len(buf) |-> IF tdo THEN 255 ELSE 0]
    IN  tap_sequence(jl, buf, tdo_bytes, n)

JLink_change_mode(tms, tdo, p, pending) ==
    LET jl == JLink_change_mode_seq(JLink_pending(pending), tms, tdo)
        cyc == JLink_cycles(jl, pending, jl.send_bits)
    IN  Returned(cyc, <<>>, PinsAfter(cyc, p))

(***************************************************************************)
(* The cables at work: a cable of one of the back-ends, the TAP brought to *)
(* ShiftDR or ShiftIR by the driver, and one shift call made on it.        *)
(***************************************************************************)
Backends == {"mpsse", "jtagkey", "ft232r", "usbblaster", "gpio", "jlink"}

\* what the call depends on besides its arguments: the level of the stale
\* bits in an adapter's answer, whether the build checks overflow, the bits
\* pending in the J-Link TAP sequence
Envs(c) ==
    [junk : IF c \in {"mpsse", "jtagkey", "jlink"} THEN {0, 1} ELSE {0},
     overflow_checks : IF c \in {"mpsse", "jtagkey"} THEN BOOLEAN ELSE {FALSE},
     pending : IF c = "jlink" THEN 0..MaxPending ELSE {0}]

WriteData(c, data, bits, pause_after, p, tdo, env) ==
    CASE c = "mpsse" -> Mpsse_write_data(data, bits, pause_after, p, tdo)
      [] c = "jtagkey" -> JtagKey_write_data(data, bits, pause_after, p, tdo)
      [] c = "ft232r" -> Ft232r_write_data(data, bits, pause_after, p, tdo)
      [] c = "usbblaster" -> UsbBlaster_write_data(data, bits, pause_after, p, tdo)
      [] c = "gpio" -> Gpio_write_data(data, bits, pause_after, p, tdo)
      [] c = "jlink" -> JLink_write_data(data, bits, pause_after, p, tdo, env.pending,
                                         env.overflow_checks)

ReadWriteData(c, data, bits, pause_after, p, tdo, env) ==
    CASE c = "mpsse" -> Mpsse_read_write_data(data, bits, pause_after, p, tdo,
                                              env.junk, env.overflow_checks)
      [] c = "jtagkey" -> JtagKey_read_write_data(data, bits, pause_after, p, tdo)
      [] c = "ft232r" -> Ft232r_read_write_data(data, bits, pause_after, p, tdo)
      [] c = "usbblaster" -> UsbBlaster_read_write_data(data, bits, pause_after, p, tdo)
      [] c = "gpio" -> Gpio_read_write_data(data, bits, pause_after, p, tdo)
      [] c = "jlink" -> JLink_read_write_data(data, bits, pause_after, p, tdo,
                                              env.pending, env.junk,
                                              env.overflow_checks)

ReadData(c, bits, p, tdo, env) ==
    CASE c = "mpsse" -> Mpsse_read_data(bits, p, tdo, env.junk, env.overflow_checks)
      [] c = "jtagkey" -> JtagKey_read_data(bits, p, tdo, env.junk)
      [] c = "ft232r" -> Ft232r_read_data(bits, p, tdo)
      [] c = "usbblaster" -> UsbBlaster_read_data(bits, p, tdo)
      [] c = "gpio" -> Gpio_read_data(bits, p, tdo)
      [] c = "jlink" -> JLink_read_data(bits, p, tdo, env.pending, env.junk)

ChangeMode(c, tms, tdo, p, env) ==
    CASE c = "mpsse" -> Mpsse_change_mode(tms, tdo, p, env.overflow_checks)
      [] c = "jtagkey" -> Mpsse_change_mode(tms, tdo, p, env.overflow_checks)
      [] c = "ft232r" -> Ft232r_change_mode(tms, tdo, p)
      [] c = "usbblaster" -> UsbBlaster_change_mode(tms, tdo, p)
      [] c = "gpio" -> Gpio_change_mode(tms, tdo, p)
      [] c = "jlink" -> JLink_change_mode(tms, tdo, p, env.pending)

\* the bits a read call asks for
MaxReadBits == 8 * MaxLen + 1

\* TDO as a call sees it when it discards the samples
Ones == [j \in 1..MaxCycles |-> 1]

RegOf(s) == IF s \in {ShiftDR, PauseDR} THEN "Data" ELSE "Instruction"

\* The call has returned r: the TAP has seen the TMS levels of its cycles,
\* and the driver records Pause after a call with pause_after
CableDone(name, a, tdo, r) ==
    /\ op' = name
    /\ args' = a
    /\ tdoIn' = tdo
    /\ cycles' = r.cycles
    /\ ret' = r.ret
    /\ aborted' = r.aborted
    /\ pins' = r.pins
    /\ from' = state
    /\ tapFrom' = tap
    /\ tap' = RunTap(tap, [j \in 1..Len(r.cycles) |-> r.cycles[j].tms])
    /\ state' = IF r.aborted THEN state
                ELSE sm_pause(Self, RegOf(state), a.pause_after).state
    /\ UNCHANGED <<cable, calls, taps, active, chain, chainFrom, pipe>>

cable_write_data ==
    /\ op = "ready"
    /\ \E data \in Buffers, bits \in 1..8, pause_after \in BOOLEAN,
          env \in Envs(cable) :
          CableDone("write_data",
                    [data |-> data, bits |-> bits, pause_after |-> pause_after,
                     env |-> env],
                    Ones,
                    WriteData(cable, data, bits, pause_after, pins, Ones, env))

cable_read_write_data ==
    /\ op = "ready"
    /\ \E data \in Buffers, bits \in 1..8, pause_after \in BOOLEAN,
          tdo \in TdoStreams, env \in Envs(cable) :
          CableDone("read_write_data",
                    [data |-> data, bits |-> bits, pause_after |-> pause_after,
                     env |-> env],
                    tdo,
                    ReadWriteData(cable, data, bits, pause_after, pins, tdo, env))

cable_read_data ==
    /\ op = "ready"
    /\ \E bits \in 1..MaxReadBits, tdo \in TdoStreams, env \in Envs(cable) :
          CableDone("read_data",
                    [data |-> <<>>, bits |-> bits, pause_after |-> FALSE,
                     env |-> env],
                    tdo, ReadData(cable, bits, pins, tdo, env))

cable_change_mode ==
    /\ op = "ready"
    /\ \E tms \in TmsSeqs, tdo \in BOOLEAN, env \in Envs(cable) :
          CableDone("change_mode",
                    [tms |-> tms, tdo |-> tdo, pause_after |-> FALSE, env |-> env],
                    Ones, ChangeMode(cable, tms, tdo, pins, env))

CableInit ==
    /\ cable \in Backends
    /\ state \in {ShiftDR, ShiftIR}
    /\ tap = state
    /\ tapFrom = state
    /\ from = state
    /\ op = "ready"
    /\ args = <<>>
    /\ calls = <<>>
    /\ cycles = <<>>
    /\ tdoIn = <<>>
    /\ ret = <<>>
    /\ aborted = FALSE
    /\ pins = [tms |-> 0, tdi |-> 1]
    /\ taps = <<>>
    /\ active = 0
    /\ chain = <<>>
    /\ chainFrom = <<>>
    /\ pipe = <<>>

CableNext ==
    \/ cable_change_mode
    \/ cable_write_data
    \/ cable_read_write_data
    \/ cable_read_data

CableSpec == CableInit /\ [][CableNext]_vars

(***************************************************************************)
(* write_data / read_write_data called with bits_in_last_byte outside 1..8 *)
(***************************************************************************)
BadBits == {0, 9}

\* the builds and adapters such a call may meet
MisuseEnvs(c) ==
    [junk : {0},
     overflow_checks : IF c \in {"mpsse", "jtagkey", "jlink"} THEN BOOLEAN ELSE {FALSE},
     pending : {0}]

misuse_write_data ==
    /\ op = "ready"
    /\ \E data \in Buffers, bits \in BadBits, pause_after \in BOOLEAN,
          env \in MisuseEnvs(cable) :
          CableDone("write_data",
                    [data |-> data, bits |-> bits, pause_after |-> pause_after,
                     env |-> env],
                    Ones,
                    WriteData(cable, data, bits, pause_after, pins, Ones, env))

misuse_read_write_data ==
    /\ op = "ready"
    /\ \E data \in Buffers, bits \in BadBits, pause_after \in BOOLEAN,
          tdo \in {Ones}, env \in MisuseEnvs(cable) :
          CableDone("read_write_data",
                    [data |-> data, bits |-> bits, pause_after |-> pause_after,
                     env |-> env],
                    tdo,
                    ReadWriteData(cable, data, bits, pause_after, pins, tdo, env))

MisuseNext ==
    \/ misuse_write_data
    \/ misuse_read_write_data

MisuseSpec == CableInit /\ [][MisuseNext]_vars

(***************************************************************************)
(* Taps (src/src/taps.rs) over the JtagSM driver.  An operation is         *)
(* followed on a record t = [sm: the driver, taps, active, aborted: an     *)
(* assert failed, ret: the number of the cable call whose value is         *)
(* returned, 0 if none].                                                   *)
(***************************************************************************)
\* bounds: TAPs in the chain, bytes in a buffer handed to Taps, bits read
TapMaxTaps == 2
TapMaxLen == 2
TapMaxRead == 2

\* the IR lengths of the TAPs, and the buffers: bytes of 0x96
IrLens == {5, 8}
TapBuffers == {[k \in 1..n |-> 150] : n \in 1..TapMaxLen}

t_sm(t, sm) == [t EXCEPT !.sm = sm]
t_abort(t) == [t EXCEPT !.aborted = TRUE]
t_return_last(t) == [t EXCEPT !.ret = Len(t.sm.calls)]

\* `for t in &self.taps[lo..hi] { sum += t.irlen }`, lo and hi counted from 0
RECURSIVE irlen_sum(_, _, _)
irlen_sum(tp, lo, hi) ==
    IF lo >= hi THEN 0 ELSE tp[lo + 1] + irlen_sum(tp, lo + 1, hi)

\* fn add_ones_to_end(input, this_len, shift)
add_ones_to_end(input, this_len, shift) ==
    LET bytes == shift \div 8
        top_bits == (2 ^ (this_len % 8)) - 1
        end == Len(input)
    IN  [input EXCEPT ![end] = Or(@, 255 - top_bits)] \o [k \in 1..bytes |-> 255]

\* `total_bits = (pad_bits + this_len) % 8; if total_bits == 0 { total_bits = 8 }`
last_bits(pad_bits, this_len) ==
    IF (pad_bits + this_len) % 8 = 0 THEN 8 ELSE (pad_bits + this_len) % 8

\* the pause_after of the writes of write_ones, and that with a `true`
write_ones_pauses == TRUE
write_ones_pause_after == FALSE

\* the byte write_ones writes for bits < 8 ones, `(1 << bits) - 1`, and a
\* byte of zeros
write_ones_zeros(bits) == 0
write_ones_last(bits) == (2 ^ bits) - 1

\* Taps::write_ones(bits), on the driver
write_ones(sm, bits0) ==
    LET bytes == bits0 \div 8
        bits == bits0 % 8
        sm1 == IF bytes > 0
               THEN sm_write_reg(sm, "Instruction", [k \in 1..bytes |-> 255], 8,
                                 write_ones_pause_after)
               ELSE sm
    IN  IF bits > 0
        THEN sm_write_reg(sm1, "Instruction", <<write_ones_last(bits)>>, bits,
                          write_ones_pause_after)
        ELSE sm1

\* the asserts of write_ir, and write_ir without the assert on ir.len()
write_ir_active_only(t, ir) == t.active < Len(t.taps)
write_ir_asserts(t, ir) ==
    /\ t.active < Len(t.taps)
    /\ Len(ir) = (t.taps[t.active + 1] + 7) \div 8

\* Taps::write_ir(ir)
t_write_ir(t, ir) ==
    IF ~write_ir_asserts(t, ir) THEN t_abort(t)
    ELSE LET this_irlen == t.taps[t.active + 1]
             after_pad == irlen_sum(t.taps, t.active + 1, Len(t.taps))
             sm1 == write_ones(t.sm, after_pad)
             pad_bits == irlen_sum(t.taps, 0, t.active)
             total_bits == last_bits(pad_bits, this_irlen)
         IN  IF ir = <<>> THEN t_abort(t_sm(t, sm1))
             ELSE t_sm(t, sm_change_mode(
                              sm_write_reg(sm1, "Instruction",
                                           add_ones_to_end(ir, this_irlen, pad_bits),
                                           total_bits, TRUE),
                              Idle))

\* the assert of select_tap, and select_tap without it
select_tap_unchecked(t, index) == TRUE
select_tap_assert(t, index) == index < Len(t.taps)

\* Taps::select_tap(tap, ir)
t_select_tap(t, index, ir) ==
    IF ~select_tap_assert(t, index) THEN t_abort(t)
    ELSE t_write_ir([t_sm(t, sm_mode_reset(t.sm)) EXCEPT !.active = index], ir)

\* the bits read_dr drops (pad_bits), and a count from the wrong side
discard_before(t) == t.active
discard_after(t) == Len(t.taps) - t.active - 1

\* a read of the register with pad bits dropped before it:
\* change_mode(Idle); if pad > 0 { read_reg(reg, pad) }; read_reg(reg, bits)
t_read(t, reg, pad, bits) ==
    LET sm1 == sm_change_mode(t.sm, Idle)
        sm2 == IF pad > 0 THEN sm_read_reg(sm1, reg, pad) ELSE sm1
    IN  t_return_last(t_sm(t, sm_read_reg(sm2, reg, bits)))

\* Taps::read_ir
t_read_ir(t) ==
    IF ~(t.active < Len(t.taps)) THEN t_abort(t)
    ELSE t_read(t, "Instruction", irlen_sum(t.taps, t.active + 1, Len(t.taps)),
                t.taps[t.active + 1])

\* Taps::read_dr(bits)
t_read_dr(t, bits) ==
    IF ~(t.active < Len(t.taps)) THEN t_abort(t)
    ELSE t_read(t, "Data", discard_after(t), bits)

\* Taps::write_dr(dr, bits)
t_write_dr(t, dr, bits) ==
    IF ~(t.active < Len(t.taps)) \/ dr = <<>> THEN t_abort(t)
    ELSE LET this_len == (Len(dr) - 1) * 8 + bits
             pad_bits == t.active
         IN  t_sm(t, sm_change_mode(
                         sm_write_reg(t.sm, "Data",
                                      add_ones_to_end(dr, this_len, pad_bits),
                                      last_bits(pad_bits, this_len), TRUE),
                         Idle))

\* Taps::read_write_dr(dr, bits)
t_read_write_dr(t, dr, bits) ==
    IF ~(t.active < Len(t.taps)) \/ dr = <<>> THEN t_abort(t)
    ELSE LET this_len == (Len(dr) - 1) * 8 + bits
             pad_bits == t.active
             discard_bits == Len(t.taps) - t.active - 1
             sm1 == IF discard_bits > 0
                    THEN sm_read_reg(t.sm, "Data", discard_bits) ELSE t.sm
             sm2 == sm_read_write_reg(sm1, "Data",
                                      add_ones_to_end(dr, this_len, pad_bits),
                                      last_bits(pad_bits, this_len), TRUE)
         IN  t_sm([t EXCEPT !.ret = Len(sm2.calls)], sm_change_mode(sm2, Idle))

\* Taps as an operation finds it
TapsSelf == [sm |-> Self, taps |-> taps, active |-> active, aborted |-> FALSE,
             ret |-> 0]

\* One Taps operation `name` with arguments a has run and left t; the
\* cable honours the trait's contract
TapsDone(name, a, t) ==
    /\ op' = name
    /\ args' = a
    /\ from' = state
    /\ tapFrom' = tap
    /\ calls' = t.sm.calls
    /\ tap' = CallsEffect(tap, CallsOf(t.sm.calls))
    /\ state' = t.sm.state
    /\ taps' = t.taps
    /\ active' = t.active
    /\ aborted' = t.aborted
    /\ ret' = t.ret
    /\ UNCHANGED <<cable, cycles, tdoIn, pins, chain, chainFrom, pipe>>

\* an add_tap that puts the descriptor in the place of the last one
t_add_tap_replaces(t, irlen) ==
    [t EXCEPT !.taps = IF @ = <<>> THEN <<irlen>>
                       ELSE [@ EXCEPT ![Len(@)] = [irlen |-> irlen].irlen]]

\* `self.taps.push(Tap { irlen })`
t_add_tap(t, irlen) == [t EXCEPT !.taps = Append(@, [irlen |-> irlen].irlen)]

\* Taps::add_tap(irlen)
add_tap ==
    /\ ~aborted
    /\ Len(taps) < TapMaxTaps
    /\ \E irlen \in IrLens :
          TapsDone("add_tap", [irlen |-> irlen], t_add_tap(TapsSelf, irlen))

select_tap ==
    /\ ~aborted
    /\ \E index \in 0..TapMaxTaps, ir \in TapBuffers :
          TapsDone("select_tap", [tap |-> index, ir |-> ir],
                   t_select_tap(TapsSelf, index, ir))

write_ir ==
    /\ ~aborted
    /\ \E ir \in TapBuffers :
          TapsDone("write_ir", [ir |-> ir], t_write_ir(TapsSelf, ir))

read_ir ==
    /\ ~aborted
    /\ TapsDone("read_ir", <<>>, t_read_ir(TapsSelf))

write_dr ==
    /\ ~aborted
    /\ \E dr \in TapBuffers, bits \in 1..8 :
          TapsDone("write_dr", [dr |-> dr, bits |-> bits],
                   t_write_dr(TapsSelf, dr, bits))

read_write_dr ==
    /\ ~aborted
    /\ \E dr \in TapBuffers, bits \in 1..8 :
          TapsDone("read_write_dr", [dr |-> dr, bits |-> bits],
                   t_read_write_dr(TapsSelf, dr, bits))

read_dr ==
    /\ ~aborted
    /\ \E bits \in 1..TapMaxRead :
          TapsDone("read_dr", [bits |-> bits], t_read_dr(TapsSelf, bits))

\* Taps::new(JtagSM::new(cable)), the TAP in any state before it
TapsInit ==
    /\ \E p \in JtagState :
          /\ tapFrom = p
          /\ tap = RunTap(p, <<1, 1, 1, 1, 1, 0>>)
    /\ state = Reset
    /\ from = Reset
    /\ op = "new"
    /\ args = <<>>
    /\ calls = <<[call |-> CallChangeMode(<<1, 1, 1, 1, 1, 0>>, TRUE),
                  at |-> Reset]>>
    /\ cable = "contract"
    /\ cycles = <<>>
    /\ tdoIn = <<>>
    /\ ret = 0
    /\ aborted = FALSE
    /\ pins = [tms |-> 0, tdi |-> 1]
    /\ taps = <<>>
    /\ active = 0
    /\ chain = <<>>
    /\ chainFrom = <<>>
    /\ pipe = <<>>

TapsNext ==
    \/ add_tap
    \/ select_tap
    \/ write_ir
    \/ read_ir
    \/ write_dr
    \/ read_write_dr
    \/ read_dr

TapsSpec == TapsInit /\ [][TapsNext]_vars

(***************************************************************************)
(* Taps on chains of 4- and 5-bit instruction registers, the instructions  *)
(* 0x0E and 0x1F, and Taps::detect.  detect reads the chain one bit at a   *)
(* time; the TDO bits of its IR phase are a chosen prefix followed by the  *)
(* ones the reads themselves shift in on TDI.                              *)
(***************************************************************************)
DetectMaxBits == 6
ScenarioIrLens == {4, 5}
ScenarioBuffers == {<<14>>, <<31>>}

RECURSIVE BitSeqs(_)
BitSeqs(n) ==
    IF n = 0 THEN {<<>>}
    ELSE BitSeqs(n - 1) \cup {Append(s, b) : s \in {t \in BitSeqs(n - 1) : Len(t) = n - 1},
                                            b \in {0, 1}}

\* the first loop of detect: the number of bits it has read and the irlen
\* it has collected when it breaks
RECURSIVE detect_loop(_, _, _, _)
detect_loop(reads, count, irlen, tdo) ==
    LET bit == IF tdo = <<>> THEN 1 ELSE Head(tdo)
        rest == IF tdo = <<>> THEN <<>> ELSE Tail(tdo)
        irlen1 == IF count > 0 THEN Append(irlen, count + 1) ELSE irlen
    IN  IF bit # 0
        THEN IF count = 0 THEN [reads |-> reads + 1, irlen |-> irlen1]
             ELSE detect_loop(reads + 1, 0, irlen1, rest)
        ELSE detect_loop(reads + 1, count + 1, irlen, rest)

\* the n calls `self.sm.read_reg(Register::Instruction, 1)` of that loop
detect_reads(sm, n) ==
    LET after[i \in 0..n] ==
            IF i = 0 THEN sm ELSE sm_read_reg(after[i - 1], "Instruction", 1)
    IN  after[n]

\* the second loop of detect: one IDCODE read per IR found; id_bit is the
\* first bit each read returns
detect_ids(sm, n, id_bit) ==
    LET after[i \in 0..n] ==
            IF i = 0 THEN sm
            ELSE LET sm1 == sm_read_reg(after[i - 1], "Data", 1)
                 IN  IF id_bit = 0 THEN sm1 ELSE sm_read_reg(sm1, "Data", 31)
    IN  after[n]

\* the list left in the order of observation
Unreversed(s) == s

\* `irlen.reverse()`
Reverse(s) == [i \in 1..Len(s) |-> s[Len(s) + 1 - i]]

\* Taps::detect; tdo holds the TDO bits of the IR phase
t_detect(t, tdo, id_bit) ==
    LET l == detect_loop(0, -1, <<>>, tdo)
        sm1 == detect_reads(sm_mode_reset(t.sm), l.reads)
        sm2 == detect_ids(sm_mode_reset(sm1), Len(l.irlen), id_bit)
    IN  [t_sm(t, sm2) EXCEPT !.taps = Reverse(l.irlen)]

scenario_add_tap ==
    /\ ~aborted
    /\ Len(taps) < TapMaxTaps
    /\ \E irlen \in ScenarioIrLens :
          TapsDone("add_tap", [irlen |-> irlen], t_add_tap(TapsSelf, irlen))

scenario_select_tap ==
    /\ ~aborted
    /\ \E index \in 0..(TapMaxTaps - 1), ir \in ScenarioBuffers :
          TapsDone("select_tap", [tap |-> index, ir |-> ir],
                   t_select_tap(TapsSelf, index, ir))

scenario_write_ir ==
    /\ ~aborted
    /\ \E ir \in ScenarioBuffers :
          TapsDone("write_ir", [ir |-> ir], t_write_ir(TapsSelf, ir))

detect ==
    /\ ~aborted
    /\ op # "detect"
    /\ \E tdo \in BitSeqs(DetectMaxBits), id_bit \in {0, 1} :
          TapsDone("detect", [tdo |-> tdo, id_bit |-> id_bit],
                   t_detect(TapsSelf, tdo, id_bit))

ScenarioNext ==
    \/ scenario_add_tap
    \/ scenario_select_tap
    \/ scenario_write_ir
    \/ detect

ScenarioSpec == TapsInit /\ [][ScenarioNext]_vars

(***************************************************************************)
(* Taps::read_write_dr over a scan chain.  `chain` holds the data          *)
(* registers between TDI and TDO while every TAP but the active one is in  *)
(* BYPASS: chain[1] is the bit next to leave on TDO.  The TAPs after the   *)
(* active one come first (one BYPASS bit each), then the active TAP's DR,  *)
(* then the TAPs before it.  A BYPASS register captures 0 in CaptureDR;    *)
(* the active DR is a plain shift register and keeps what was shifted in.  *)
(***************************************************************************)
RtMaxDr == 8
RtBytes == {150, 105}

\* the BYPASS bits on the TDO side and on the TDI side of the active DR
ChainAfter == Len(taps) - active - 1
ChainBefore == active
ChainDr(ch) == SubSeq(ch, ChainAfter + 1, Len(ch) - ChainBefore)

\* CaptureDR: every BYPASS register loads 0
ChainCapture(ch) ==
    [i \in 1..Len(ch) |->
        IF i <= ChainAfter \/ i > Len(ch) - ChainBefore THEN 0 ELSE ch[i]]

\* The cycles a cable that honours the trait makes of one call: the TMS
\* levels of ContractShiftTms, TDI the data bits (ones for a read)
ChainCycles(c) ==
    IF c.fn = "change_mode"
    THEN [j \in 1..Len(c.tms) |-> Cycle(IF c.tms[j] # 0 THEN 1 ELSE 0, Level(c.tdo))]
    ELSE LET n == IF c.fn = "read_data" THEN c.bits
                  ELSE (Len(c.data) - 1) * 8 + c.bits
             tms == ContractShiftTms(n, c.fn # "read_data" /\ c.pause_after)
         IN  [j \in 1..Len(tms) |->
                 Cycle(tms[j],
                       IF c.fn = "read_data" \/ j > n THEN 1
                       ELSE Bit(c.data[((j - 1) \div 8) + 1], (j - 1) % 8))]

\* One TCK cycle: in ShiftDR the chain moves one place towards TDO, which is
\* sampled; in CaptureDR the registers load
ChainClock(m, cyc) ==
    [tap |-> TapNext(m.tap, cyc.tms),
     chain |-> CASE m.tap = ShiftDR -> Tail(m.chain) \o <<cyc.tdi>>
                 [] m.tap = CaptureDR -> ChainCapture(m.chain)
                 [] OTHER -> m.chain,
     out |-> IF m.tap = ShiftDR THEN Append(m.out, Head(m.chain)) ELSE m.out]

RECURSIVE ChainRun(_, _)
ChainRun(m, cyc) ==
    IF cyc = <<>> THEN m ELSE ChainRun(ChainClock(m, Head(cyc)), Tail(cyc))

\* The calls cs in turn; out is what the call number `keep` sampled
RECURSIVE ChainCalls(_, _, _, _)
ChainCalls(m, cs, i, keep) ==
    IF i > Len(cs) THEN m
    ELSE LET r == ChainRun([m EXCEPT !.out = <<>>], ChainCycles(cs[i]))
         IN  ChainCalls([r EXCEPT !.out = IF i = keep THEN r.out ELSE m.out],
                        cs, i + 1, keep)

\* Taps::read_write_dr(dr, bits) with dr as long as the active DR; ret is
\* the buffer the call returns
chain_read_write_dr ==
    /\ ~aborted
    /\ \E b \in RtBytes, bits \in 1..8 :
          /\ bits = Len(ChainDr(chain))
          /\ LET t == t_read_write_dr(TapsSelf, <<b>>, bits)
                 m == ChainCalls([tap |-> tap, chain |-> chain, out |-> <<>>],
                                 CallsOf(t.sm.calls), 1, t.ret)
             IN  /\ op' = "read_write_dr"
                 /\ args' = [dr |-> <<b>>, bits |-> bits]
                 /\ from' = state
                 /\ tapFrom' = tap
                 /\ calls' = t.sm.calls
                 /\ state' = t.sm.state
                 /\ tap' = m.tap
                 /\ chainFrom' = chain
                 /\ chain' = m.chain
                 /\ ret' = [k \in 1..((Len(m.out) + 7) \div 8) |->
                               Gpio_byte(m.out, 8 * (k - 1) + 1,
                                         IF 8 * k <= Len(m.out) THEN 8
                                         ELSE Len(m.out) % 8)]
                 /\ aborted' = t.aborted
                 /\ UNCHANGED <<cable, cycles, tdoIn, pins, taps, active, pipe>>

\* after add_tap for every TAP and a select_tap: the driver and the TAPs in
\* Idle, a DR of 1..RtMaxDr bits selected
RoundTripInit ==
    /\ \E n \in 1..TapMaxTaps :
          /\ taps \in [1..n -> IrLens]
          /\ active \in 0..(n - 1)
          /\ \E l \in 1..RtMaxDr : chain = [i \in 1..(n - 1 + l) |-> 0]
    /\ chainFrom = <<>>
    /\ state = Idle
    /\ from = Reset
    /\ tap = Idle
    /\ tapFrom = Reset
    /\ op = "select_tap"
    /\ args = <<>>
    /\ calls = <<>>
    /\ cable = "contract"
    /\ cycles = <<>>
    /\ tdoIn = <<>>
    /\ ret = <<>>
    /\ aborted = FALSE
    /\ pins = [tms |-> 0, tdi |-> 1]
    /\ pipe = <<>>

RoundTripNext == chain_read_write_dr

RoundTripSpec == RoundTripInit /\ [][RoundTripNext]_vars

(***************************************************************************)
(* queue_read / queue_read_write / finish_read of the back-ends that have  *)
(* them: Mpsse (mpsse.rs), JLink and UsbBlaster.  `pipe` holds the fields  *)
(* of the cable object, the TDO samples the chain gives for the cycles not *)
(* yet sent (samples), and for every request not yet finished what the     *)
(* synchronous call would have returned when it was queued (want);         *)
(* matched is the entry of the request a finish_read has just answered,    *)
(* requests the number of reads asked for, flushed whether flush has been *)
(* called with reads outstanding, answers what a Mpsse adapter has been    *)
(* sent the commands for and not yet been read.                            *)
(***************************************************************************)
QMaxPending == 2
QMaxRequests == 3
QBits == {3, 8}
QBytes == {150}
QSamples == {150, 105}
QBackends == {"mpsse", "jlink", "usbblaster", "gpio"}

\* TDO during the cycles of one request
QTdo(b) == [j \in 1..MaxCycles |-> Bit(b, (j - 1) % 8)]

\* the outcome of a queue or finish call: the cable's fields q, the value
\* returned, whether it panicked, the cycles written to the adapter
QOut(q, r, cyc) == [pipe |-> q, ret |-> r, aborted |-> FALSE, cycles |-> cyc]
QPanic(q) == [pipe |-> q, ret |-> <<>>, aborted |-> TRUE, cycles |-> <<>>]

RECURSIVE QSum(_, _)
QSum(entries, k) ==
    IF entries = <<>> THEN 0 ELSE Head(entries)[k] + QSum(Tail(entries), k)

\* JLink::queue_read_write(data, bits, pause_after)
QJLink_queue_read_write(q, data, bits, pause_after, tdo) ==
    LET jl == send_tdo(q.jl, data, bits, pause_after)
    IN  QOut([q EXCEPT !.queued_read_offsets = Append(@, q.recv_bytes),
                       !.queued_send_bits = Append(@, q.jl.send_bits),
                       !.jl = jl,
                       !.samples = @ \o SubSeq(tdo, 1, jl.send_bits - q.jl.send_bits)],
             TRUE, <<>>)

\* JLink::queue_read(bits)
QJLink_queue_read(q, bits, tdo) ==
    QJLink_queue_read_write(q, [k \in 1..((bits + 7) \div 8) |-> 255],
                            IF bits % 8 = 0 THEN 8 ELSE bits % 8, FALSE, tdo)

\* JLink::send_data and JLink::refill_read_queue: the TAP sequence is sent
\* and the adapter's answer read into queued_reads
QJLink_send_refill(q) ==
    IF q.jl.tms_buf = <<>> THEN q
    ELSE [q EXCEPT !.queued_reads =
                       @ \o JLink_response(0, q.jl.send_bits, q.samples, q.env.junk),
                   !.recv_bytes = 0,
                   !.jl = JLinkSeq(<<>>, <<>>, 0),
                   !.samples = <<>>]

\* JLink::finish_read(bits)
QJLink_finish_read(q, bits) ==
    LET q1 == IF q.queued_reads = <<>> THEN QJLink_send_refill(q) ELSE q
        sent == IF q.queued_reads = <<>> /\ q.jl.tms_buf # <<>>
                THEN JLink_cycles(q.jl, 0, q.jl.send_bits) ELSE <<>>
        offset == Head(q1.queued_read_offsets)
        offsets == [k \in 1..(Len(q1.queued_read_offsets) - 1) |->
                       q1.queued_read_offsets[k + 1] - offset]
        reads == SubSeq(q1.queued_reads, offset + 1, Len(q1.queued_reads))
        send_bits == Head(q1.queued_send_bits)
        rest == Tail(q1.queued_send_bits)
    IN  IF q1.queued_read_offsets = <<>> \/ offset > Len(q1.queued_reads)
             \/ \E k \in 1..Len(offsets) : offsets[k] < 0
        THEN QPanic(q1)
        ELSE IF bits > 0 /\ send_bits + bits > 8 * Len(reads)
        THEN QPanic(q1)
        ELSE [QOut([q1 EXCEPT !.queued_read_offsets = offsets,
                              !.queued_send_bits = rest,
                              !.queued_reads = IF rest = <<>> THEN <<>> ELSE reads],
                   bit_append(<<>>, 0, reads, send_bits + bits, send_bits), sent)
                 EXCEPT !.cycles = sent]

\* Mpsse::queue_read / queue_read_write: r is what Mpsse_queue_read or
\* Mpsse_queue_read_write builds
QMpsse_queue(q, r, tdo) ==
    IF r.entry[2] + QSum(q.queued_read_state, 2) < 4096
    THEN QOut([q EXCEPT !.queued_read_state = Append(@, r.entry),
                        !.buffer = @ \o r.cmds,
                        !.samples = @ \o SubSeq(tdo, 1, Len(CmdsCycles(r.cmds, 0)))],
              TRUE, <<>>)
    ELSE QOut(q, FALSE, <<>>)

\* Mpsse::finish_read(bits)
QMpsse_finish_read(q, bits) ==
    IF q.queued_read_state = <<>> THEN QPanic(q)
    ELSE LET entry == Head(q.queued_read_state)
             xfer == q.queued_reads = <<>>
             reads == IF xfer
                      THEN q.answers \o CmdsResponse(q.buffer, q.samples, 1, q.env.junk)
                      ELSE q.queued_reads
             out == Mpsse_finish_read(entry, bits, reads, q.env.overflow_checks)
             q1 == [q EXCEPT !.queued_read_state = Tail(@),
                             !.queued_reads = SubSeq(reads, entry[2] + 1, Len(reads)),
                             !.buffer = IF xfer THEN <<>> ELSE @,
                             !.samples = IF xfer THEN <<>> ELSE @,
                             !.answers = IF xfer THEN <<>> ELSE @]
         IN  IF bits # entry[1] THEN QPanic(q)
             ELSE IF out.panic \/ entry[2] > Len(reads)
             THEN [QPanic(q1) EXCEPT !.cycles = IF xfer THEN CmdsCycles(q.buffer, 0)
                                                ELSE <<>>]
             ELSE QOut(q1, out.buf, IF xfer THEN CmdsCycles(q.buffer, 0) ELSE <<>>)

\* UsbBlaster::queue_read / queue_read_write: r is what read_data or
\* read_write_data did
QUsbBlaster_queue(q, r) ==
        IF r.aborted THEN QPanic(q)
        ELSE QOut([q EXCEPT !.read_queue = Append(@, r.ret)], TRUE, r.cycles)

\* UsbBlaster::finish_read(_bits)
QUsbBlaster_finish_read(q, bits) ==
    IF q.read_queue = <<>> THEN QPanic(q)
    ELSE QOut([q EXCEPT !.read_queue = Tail(@)], Head(q.read_queue), <<>>)

\* Mpsse::flush: the buffer is sent; the adapter holds its answer until
\* the next xfer reads it
QMpsse_flush(q) ==
    QOut([q EXCEPT !.answers = @ \o CmdsResponse(q.buffer, q.samples, 1, q.env.junk),
                   !.buffer = <<>>,
                   !.samples = <<>>],
         <<>>, CmdsCycles(q.buffer, 0))

\* JLink::flush: the inherent read_data(0)
QJLink_flush(q) ==
    IF q.queued_reads # <<>> THEN QPanic(q)
    ELSE QOut([QJLink_send_refill(q) EXCEPT !.queued_reads = <<>>],
              <<>>,
              IF q.jl.tms_buf # <<>> THEN JLink_cycles(q.jl, 0, q.jl.send_bits)
              ELSE <<>>)

\* Gpio::queue_read / queue_read_write
QGpio_queue(q) == QOut(q, FALSE, <<>>)

\* Gpio::finish_read
QGpio_finish_read(q, bits) == QOut(q, <<>>, <<>>)

QueueRead(c, q, bits, p, tdo) ==
    CASE c = "mpsse" -> QMpsse_queue(q, Mpsse_queue_read(bits), tdo)
      [] c = "gpio" -> QGpio_queue(q)
      [] c = "jlink" -> QJLink_queue_read(q, bits, tdo)
      [] c = "usbblaster" -> QUsbBlaster_queue(q, UsbBlaster_read_data(bits, p, tdo))

QueueReadWrite(c, q, data, bits, pause_after, p, tdo) ==
    CASE c = "gpio" -> QGpio_queue(q)
      [] c = "mpsse" ->
            IF bits > 8 \/ bits = 0 \/ Len(data) = 0 THEN QPanic(q)
            ELSE QMpsse_queue(q, Mpsse_queue_read_write(data, bits, pause_after), tdo)
      [] c = "jlink" ->
            IF bits = 0 \/ Len(data) = 0 THEN QPanic(q)
            ELSE QJLink_queue_read_write(q, data, bits, pause_after, tdo)
      [] c = "usbblaster" ->
            QUsbBlaster_queue(q, UsbBlaster_read_write_data(data, bits, pause_after,
                                                            p, tdo))

FinishRead(c, q, bits) ==
    CASE c = "mpsse" -> QMpsse_finish_read(q, bits)
      [] c = "gpio" -> QGpio_finish_read(q, bits)
      [] c = "jlink" -> QJLink_finish_read(q, bits)
      [] c = "usbblaster" -> QUsbBlaster_finish_read(q, bits)

\* a queue call and the finish_read that follows it in a synchronous call
QThen(r, c, bits) ==
    IF r.aborted THEN r
    ELSE LET f == FinishRead(c, r.pipe, bits)
         IN  [f EXCEPT !.cycles = r.cycles \o @]

\* Cable::read_data(bits) on a cable that may have reads queued
SyncReadData(c, q, bits, p, tdo) ==
    CASE c = "mpsse" ->
            IF q.queued_read_state # <<>> THEN QPanic(q)
            ELSE QThen(QueueRead(c, q, bits, p, tdo), c, bits)
      [] c = "jlink" -> QThen(QueueRead(c, q, bits, p, tdo), c, bits)
      [] c = "usbblaster" ->
            LET r == UsbBlaster_read_data(bits, p, tdo)
            IN  IF r.aborted THEN QPanic(q) ELSE QOut(q, r.ret, r.cycles)
      [] c = "gpio" ->
            LET r == Gpio_read_data(bits, p, tdo)
            IN  IF r.aborted THEN QPanic(q) ELSE QOut(q, r.ret, r.cycles)

\* Cable::read_write_data(data, bits, pause_after) on such a cable
SyncReadWriteData(c, q, data, bits, pause_after, p, tdo) ==
    CASE c = "mpsse" ->
            IF q.queued_read_state # <<>> THEN QPanic(q)
            ELSE QThen(QueueReadWrite(c, q, data, bits, pause_after, p, tdo), c,
                       (Len(data) - 1) * 8 + bits)
      [] c = "jlink" ->
            QThen(QueueReadWrite(c, q, data, bits, pause_after, p, tdo), c,
                  (Len(data) - 1) * 8 + bits)
      [] c = "usbblaster" ->
            LET r == UsbBlaster_read_write_data(data, bits, pause_after, p, tdo)
            IN  IF r.aborted THEN QPanic(q) ELSE QOut(q, r.ret, r.cycles)
      [] c = "gpio" ->
            LET r == Gpio_read_write_data(data, bits, pause_after, p, tdo)
            IN  IF r.aborted THEN QPanic(q) ELSE QOut(q, r.ret, r.cycles)

\* Cable::flush of the back-ends that have one
Flush(c, q) ==
    CASE c = "mpsse" -> QMpsse_flush(q)
      [] c = "jlink" -> QJLink_flush(q)

\* what the synchronous call returns for the request, as a want entry
QWant(bits, r) == [bits |-> bits, ret |-> r.ret, aborted |-> r.aborted]
QNone == QWant(0, [ret |-> <<>>, aborted |-> FALSE])

\* One call on the cable has ended with outcome r and left `want`; the chain
\* is present as the samples it gives, cycles are those written by the call
QueueDone(name, a, r, want, matched, misused, flushed) ==
    /\ op' = name
    /\ args' = a
    /\ ret' = r.ret
    /\ aborted' = r.aborted
    /\ cycles' = r.cycles
    /\ pipe' = [r.pipe EXCEPT !.want = want, !.matched = matched,
                              !.misused = misused,
                              !.flushed = flushed,
                              !.requests = IF name \in {"finish_read", "flush"}
                                           THEN @ ELSE @ + 1]
    /\ UNCHANGED <<state, from, tap, tapFrom, pins, calls, cable, tdoIn, taps,
                   active, chain, chainFrom>>

cable_queue_read ==
    /\ ~aborted
    /\ ~pipe.misused
    /\ Len(pipe.want) < QMaxPending
    /\ pipe.requests < QMaxRequests
    /\ \E bits \in QBits, b \in QSamples :
          LET r == QueueRead(cable, pipe, bits, pins, QTdo(b))
              sync == ReadData(cable, bits, pins, QTdo(b), pipe.env)
          IN  QueueDone("queue_read", [bits |-> bits, tdo |-> b], r,
                        IF r.ret = TRUE THEN Append(pipe.want, QWant(bits, sync))
                        ELSE pipe.want,
                        QNone, pipe.misused, pipe.flushed)

cable_queue_read_write ==
    /\ ~aborted
    /\ ~pipe.misused
    /\ Len(pipe.want) < QMaxPending
    /\ pipe.requests < QMaxRequests
    /\ \E data \in [1..1 -> QBytes], bits \in QBits, pause_after \in BOOLEAN,
          b \in QSamples :
          LET r == QueueReadWrite(cable, pipe, data, bits, pause_after, pins, QTdo(b))
              sync == ReadWriteData(cable, data, bits, pause_after, pins, QTdo(b),
                                    pipe.env)
          IN  QueueDone("queue_read_write",
                        [data |-> data, bits |-> bits, pause_after |-> pause_after,
                         tdo |-> b],
                        r,
                        IF r.ret = TRUE
                        THEN Append(pipe.want,
                                    QWant((Len(data) - 1) * 8 + bits, sync))
                        ELSE pipe.want,
                        QNone, pipe.misused, pipe.flushed)

\* finish_read(bits) for the oldest request not yet finished; a cable is
\* followed up to its first finish_read with other bits than were queued
cable_finish_read ==
    /\ ~aborted
    /\ ~pipe.misused
    /\ pipe.want # <<>>
    /\ \E bits \in QBits :
          QueueDone("finish_read", [bits |-> bits], FinishRead(cable, pipe, bits),
                    Tail(pipe.want), Head(pipe.want),
                    pipe.misused \/ bits # Head(pipe.want).bits, pipe.flushed)

\* read_data(bits), whatever is queued; a cable is followed no further
\* than a synchronous call made with reads outstanding
cable_sync_read_data ==
    /\ ~aborted
    /\ ~pipe.misused
    /\ pipe.requests < QMaxRequests
    /\ \E bits \in QBits, b \in QSamples :
          QueueDone("read_data", [bits |-> bits, tdo |-> b],
                    SyncReadData(cable, pipe, bits, pins, QTdo(b)),
                    pipe.want,
                    QWant(bits, ReadData(cable, bits, pins, QTdo(b), pipe.env)),
                    pipe.want # <<>>, pipe.flushed)

\* read_write_data(data, bits, pause_after), whatever is queued
cable_sync_read_write_data ==
    /\ ~aborted
    /\ ~pipe.misused
    /\ pipe.requests < QMaxRequests
    /\ \E data \in [1..1 -> QBytes], bits \in QBits, pause_after \in BOOLEAN,
          b \in QSamples :
          QueueDone("read_write_data",
                    [data |-> data, bits |-> bits, pause_after |-> pause_after,
                     tdo |-> b],
                    SyncReadWriteData(cable, pipe, data, bits, pause_after, pins,
                                      QTdo(b)),
                    pipe.want,
                    QWant((Len(data) - 1) * 8 + bits,
                          ReadWriteData(cable, data, bits, pause_after, pins,
                                        QTdo(b), pipe.env)),
                    pipe.want # <<>>, pipe.flushed)

\* flush(); flushed records that reads were outstanding
cable_flush ==
    /\ ~aborted
    /\ ~pipe.misused
    /\ cable \in {"mpsse", "jlink"}
    /\ op # "flush"
    /\ QueueDone("flush", <<>>, Flush(cable, pipe), pipe.want, QNone,
                 pipe.misused, pipe.flushed \/ pipe.want # <<>>)

\* a cable with nothing queued; the TAP sequence of a JLink is sent from
\* its first bit, so that no bit of the answer is stale
QueueInit ==
    /\ cable \in QBackends
    /\ \E env \in Envs(cable) :
          /\ env.pending = 0
          /\ cable = "jlink" => env.junk = 0
          /\ pipe = [env |-> env,
                     jl |-> JLinkSeq(<<>>, <<>>, 0),
                     recv_bytes |-> 0,
                     queued_reads |-> <<>>,
                     queued_read_offsets |-> <<>>,
                     queued_send_bits |-> <<>>,
                     buffer |-> <<>>,
                     queued_read_state |-> <<>>,
                     read_queue |-> <<>>,
                     answers |-> <<>>,
                     samples |-> <<>>,
                     want |-> <<>>,
                     matched |-> QNone,
                     misused |-> FALSE,
                     flushed |-> FALSE,
                     requests |-> 0]
    /\ state = ShiftDR
    /\ tap = state
    /\ tapFrom = state
    /\ from = state
    /\ op = "ready"
    /\ args = <<>>
    /\ calls = <<>>
    /\ cycles = <<>>
    /\ tdoIn = <<>>
    /\ ret = <<>>
    /\ aborted = FALSE
    /\ pins = [tms |-> 0, tdi |-> 1]
    /\ taps = <<>>
    /\ active = 0
    /\ chain = <<>>
    /\ chainFrom = <<>>

QueueNext ==
    \/ cable_queue_read
    \/ cable_queue_read_write
    \/ cable_finish_read
    \/ cable_sync_read_data
    \/ cable_sync_read_write_data
    \/ cable_flush

QueueSpec == QueueInit /\ [][QueueNext]_vars

(***************************************************************************)
(* The J-Link TAP sequence on its way to the adapter: change_mode calls    *)
(* are batched in tms_buf / tdo_buf and flush sends them.  pipe holds      *)
(*   jl, buffer, recv_bytes: the fields of JLink;                          *)
(*   batched: the change_mode calls made since the last flush;             *)
(*   flushed: those the last flush sent; sent: the bytes it wrote to the   *)
(*   device; expected: the response bytes it then waited for.              *)
(***************************************************************************)
JlMaxBatched == 2
JlTmsSeqs == {<<1, 0, 1>>, <<0>>, <<1, 1, 1, 1, 1, 0>>, <<0, 1, 1, 0, 0, 0, 0, 0, 1>>}

\* flush_tap_sequence with the high byte of send_bits first
flush_tap_sequence_high_first(j) ==
    IF j.jl.tms_buf = <<>> THEN j
    ELSE [j EXCEPT !.buffer = @ \o <<205, (j.jl.send_bits \div 256) % 256,
                                     j.jl.send_bits % 256>>
                                \o j.jl.tms_buf \o j.jl.tdo_buf,
                   !.jl = JLinkSeq(<<>>, <<>>, 0),
                   !.recv_bytes = @ + Len(j.jl.tms_buf)]

\* JLink::flush_tap_sequence
flush_tap_sequence(j) ==
    IF j.jl.tms_buf = <<>> THEN j
    ELSE [j EXCEPT !.buffer = @ \o <<205, j.jl.send_bits % 256,
                                     (j.jl.send_bits \div 256) % 256>>
                                \o j.jl.tms_buf \o j.jl.tdo_buf,
                   !.jl = JLinkSeq(<<>>, <<>>, 0),
                   !.recv_bytes = @ + Len(j.jl.tms_buf)]

\* Cable for JLink::flush: read_data(0), i.e. send_data (flush_tap_sequence
\* and the write of buffer) and refill_read_queue; no read is queued here
TapSequence_flush(j) ==
    LET j1 == flush_tap_sequence(j)
    IN  [j1 EXCEPT !.sent = j1.buffer,
                   !.buffer = <<>>,
                   !.expected = j1.recv_bytes,
                   !.recv_bytes = 0,
                   !.flushed = j.batched,
                   !.batched = <<>>]

TapSequenceDone(name, a, j) ==
    /\ op' = name
    /\ args' = a
    /\ pipe' = j
    /\ UNCHANGED <<state, from, tap, tapFrom, pins, calls, cable, tdoIn, taps,
                   active, chain, chainFrom, cycles, ret, aborted>>

jlink_change_mode ==
    /\ Len(pipe.batched) < JlMaxBatched
    /\ \E tms \in JlTmsSeqs, tdo \in BOOLEAN :
          TapSequenceDone("change_mode", [tms |-> tms, tdo |-> tdo],
                          [pipe EXCEPT !.jl = JLink_change_mode_seq(@, tms, tdo),
                                       !.batched = Append(@, [tms |-> tms, tdo |-> tdo]),
                                       !.sent = <<>>,
                                       !.expected = 0,
                                       !.flushed = <<>>])

jlink_flush ==
    /\ op # "flush"
    /\ TapSequenceDone("flush", <<>>, TapSequence_flush(pipe))

TapSequenceInit ==
    /\ cable = "jlink"
    /\ pipe = [jl |-> JLinkSeq(<<>>, <<>>, 0), buffer |-> <<>>, recv_bytes |-> 0,
               batched |-> <<>>, flushed |-> <<>>, sent |-> <<>>, expected |-> 0]
    /\ state \in {ShiftDR, ShiftIR}
    /\ tap = state
    /\ tapFrom = state
    /\ from = state
    /\ op = "ready"
    /\ args = <<>>
    /\ calls = <<>>
    /\ cycles = <<>>
    /\ tdoIn = <<>>
    /\ ret = <<>>
    /\ aborted = FALSE
    /\ pins = [tms |-> 0, tdi |-> 1]
    /\ taps = <<>>
    /\ active = 0
    /\ chain = <<>>
    /\ chainFrom = <<>>

TapSequenceNext ==
    \/ jlink_change_mode
    \/ jlink_flush

TapSequenceSpec == TapSequenceInit /\ [][TapSequenceNext]_vars

(***************************************************************************)
(* The status query of the J-Link back-end (StatusSpec): JLink::new sends  *)
(* command 0x07 and reads 8 bytes; every pair of values of the first two   *)
(* bytes is drawn.                                                         *)
(***************************************************************************)
\* `((data[0] as u16) + (data[1] as u16)) << 8`: the sum of the two bytes
\* shifted left in 16 bits, the bits shifted out lost
get_status_vref(data) == ((data[1] + data[2]) * 256) % 65536

\* JLink::get_status on the 8 bytes the adapter answers with
get_status ==
    /\ op = "ready"
    /\ \E d0 \in 0..255, d1 \in 0..255 :
          LET data == <<d0, d1, 0, 0, 0, 0, 0, 0>>
              low == get_status_vref(data) < 15000
          IN  /\ op' = "get_status"
              /\ args' = [data |-> data]
              /\ pipe' = [pipe EXCEPT !.sent = pipe.buffer \o <<7>>,
                                      !.buffer = <<>>]
              /\ aborted' = low
              /\ ret' = IF low THEN <<>> ELSE data
    /\ UNCHANGED <<state, from, tap, tapFrom, pins, calls, cable, tdoIn, taps,
                   active, chain, chainFrom, cycles>>

StatusNext == get_status

StatusSpec == TapSequenceInit /\ [][StatusNext]_vars

(***************************************************************************)
(* The command buffer of the batching MPSSE back-end (BufferSpec): calls   *)
(* of change_mode, write_data, queue_read, queue_read_write, finish_read   *)
(* and flush on data of a few bytes and of several thousand; the buffer    *)
(* and the bytes read ahead are kept by their lengths.                     *)
(***************************************************************************)
\* calls made on the cable
BufMaxCalls == 3

\* bytes of a caller's buffer, and bits of a queued read
BufDataLens == {1, 2, 2048, 4094}
BufReadBits == {1, 16, 32760}

\* the bytes of a command as the MPSSE command builder lays it out: an
\* opcode and a two-byte length before the data of a byte command; an
\* opcode, a length and one data byte for a bit or TMS command
CmdLen(c) == IF c.cmd = "data" THEN 3 + Len(c.data) ELSE 3

\* `builder.as_slice().len()`
RECURSIVE CmdsLen(_)
CmdsLen(cmds) ==
    IF cmds = <<>> THEN 0 ELSE CmdLen(Head(cmds)) + CmdsLen(Tail(cmds))

\* `if len + self.buffer.len() > 4096 { self.flush(); }`
buf_flush_if_full(b, len) ==
    IF len + b.buffer_len > 4096
    THEN [b EXCEPT !.buffer_len = 0, !.flushes = @ + 1]
    ELSE b

\* `self.buffer.append(...)` after the flush test
buf_append(b, cmds) ==
    [buf_flush_if_full(b, CmdsLen(cmds)) EXCEPT !.buffer_len = @ + CmdsLen(cmds)]

\* the tail of Mpsse::queue_read and Mpsse::queue_read_write: the sum is
\* taken over the bits of the entries by queue_read (which is 1) and over
\* their bytes by queue_read_write (which is 2)
buf_queue(b, r, which) ==
    LET b1 == buf_flush_if_full(b, CmdsLen(r.cmds))
        held == QSum([k \in 1..Len(b.queued_read_state) |->
                         IF which = 1
                         THEN <<(b.queued_read_state[k][1] + 7) \div 8>>
                         ELSE <<b.queued_read_state[k][2]>>], 1)
    IN  IF r.entry[2] + held < 4096
        THEN [b1 EXCEPT !.queued_read_state = Append(@, <<r.entry[1], r.entry[2]>>),
                        !.buffer_len = @ + CmdsLen(r.cmds),
                        !.ok = TRUE]
        ELSE [b1 EXCEPT !.ok = FALSE]

\* Mpsse::finish_read of the oldest entry: with no bytes read ahead the
\* buffer is sent and the bytes of every entry are read; split_off panics
\* when fewer bytes are held than the entry has
buf_finish_read(b) ==
    LET entry == Head(b.queued_read_state)
        xfer == b.queued_reads_len = 0
        total == QSum(b.queued_read_state, 2)
        held == IF xfer THEN total ELSE b.queued_reads_len
    IN  [b EXCEPT !.queued_read_state = Tail(@),
                  !.queued_reads_len = IF entry[2] > held THEN held ELSE held - entry[2],
                  !.buffer_len = IF xfer THEN 0 ELSE @,
                  !.panic = entry[2] > held]

BufferDone(name, a, b) ==
    /\ op' = name
    /\ args' = a
    /\ pipe' = [b EXCEPT !.calls = @ + 1]
    /\ aborted' = b.panic
    /\ UNCHANGED <<state, from, tap, tapFrom, pins, calls, cable, tdoIn, taps,
                   active, chain, chainFrom, cycles, ret>>

buffer_change_mode ==
    /\ ~aborted
    /\ pipe.calls < BufMaxCalls
    /\ \E tms \in JlTmsSeqs, tdo \in BOOLEAN :
          BufferDone("change_mode", [tms |-> tms, tdo |-> tdo],
                     buf_append(pipe, Mpsse_change_mode_cmds(tms, tdo)))

buffer_write_data ==
    /\ ~aborted
    /\ pipe.calls < BufMaxCalls
    /\ \E n \in BufDataLens, bits \in {1, 8}, pause_after \in BOOLEAN :
          BufferDone("write_data", [len |-> n, bits |-> bits, pause_after |-> pause_after],
                     buf_append(pipe, Mpsse_write_cmds([k \in 1..n |-> 255], bits,
                                                       pause_after)))

buffer_queue_read ==
    /\ ~aborted
    /\ pipe.calls < BufMaxCalls
    /\ \E bits \in BufReadBits :
          BufferDone("queue_read", [bits |-> bits],
                     buf_queue(pipe, Mpsse_queue_read(bits), 1))

buffer_queue_read_write ==
    /\ ~aborted
    /\ pipe.calls < BufMaxCalls
    /\ \E n \in BufDataLens, bits \in {1, 8}, pause_after \in BOOLEAN :
          BufferDone("queue_read_write",
                     [len |-> n, bits |-> bits, pause_after |-> pause_after],
                     buf_queue(pipe, Mpsse_queue_read_write([k \in 1..n |-> 255], bits,
                                                            pause_after), 2))

buffer_finish_read ==
    /\ ~aborted
    /\ pipe.queued_read_state # <<>>
    /\ BufferDone("finish_read", [bits |-> Head(pipe.queued_read_state)[1]],
                  [buf_finish_read(pipe) EXCEPT !.calls = @ - 1])

buffer_flush ==
    /\ ~aborted
    /\ pipe.calls < BufMaxCalls
    /\ op # "flush"
    /\ BufferDone("flush", <<>>, [pipe EXCEPT !.buffer_len = 0, !.flushes = @ + 1])

BufferInit ==
    /\ cable = "mpsse"
    /\ pipe = [buffer_len |-> 0, queued_read_state |-> <<>>, queued_reads_len |-> 0,
               flushes |-> 0, ok |-> TRUE, panic |-> FALSE, calls |-> 0]
    /\ state \in {ShiftDR, ShiftIR}
    /\ tap = state
    /\ tapFrom = state
    /\ from = state
    /\ op = "ready"
    /\ args = <<>>
    /\ calls = <<>>
    /\ cycles = <<>>
    /\ tdoIn = <<>>
    /\ ret = <<>>
    /\ aborted = FALSE
    /\ pins = [tms |-> 0, tdi |-> 1]
    /\ taps = <<>>
    /\ active = 0
    /\ chain = <<>>
    /\ chainFrom = <<>>

BufferNext ==
    \/ buffer_change_mode
    \/ buffer_write_data
    \/ buffer_queue_read
    \/ buffer_queue_read_write
    \/ buffer_finish_read
    \/ buffer_flush

BufferSpec == BufferInit /\ [][BufferNext]_vars

(***************************************************************************)
(* The J-Link TAP sequence on large data (BatchSpec): change_mode,         *)
(* write_data, queue_read and queue_read_write calls of up to 389 bytes    *)
(* each, and send_data; tms_buf and tdo_buf are kept by their lengths.     *)
(***************************************************************************)
\* calls made on the cable, send_data apart
BatchMaxCalls == 3

\* bytes of a caller's buffer, and lengths of a TMS path
BatchDataLens == {1, 200, 389}
BatchTmsLens == {3, 8}

\* the length bit_append leaves dst with: the last byte is popped when
\* dst_bits is not a multiple of 8, a byte is pushed each time dst_bits
\* reaches one, and one more at the end when it is not at one
bit_append_len(dst_len, dst_bits, src_bits) ==
    (IF dst_len > 0 /\ dst_bits % 8 # 0 THEN dst_len - 1 ELSE dst_len)
        + ((dst_bits + src_bits) \div 8) - (dst_bits \div 8)
        + (IF (dst_bits + src_bits) % 8 # 0 THEN 1 ELSE 0)

\* JLink::tap_sequence on tms and tdo of tms_len and tdo_len bytes
batch_tap_sequence(j, tms_len, tdo_len, bits) ==
    IF tms_len # tdo_len \/ ~(tms_len < 390) THEN [j EXCEPT !.panic = TRUE]
    ELSE [j EXCEPT !.tms_len = bit_append_len(@, j.send_bits, bits),
                   !.tdo_len = bit_append_len(@, j.send_bits, bits),
                   !.send_bits = @ + bits,
                   !.queued = @ + bits]

\* JLink::send_tdo on data of len bytes
batch_send_tdo(j, len, bits, pause_after) ==
    LET total_bits == (len - 1) * 8 + bits
        extra == pause_after /\ total_bits % 8 = 0
    IN  batch_tap_sequence(j, IF extra THEN len + 1 ELSE len,
                           IF extra THEN len + 1 ELSE len,
                           IF pause_after THEN total_bits + 1 ELSE total_bits)

\* JLink::flush_tap_sequence: the command placed is kept as its bit count
\* (the two bytes after 0xcd), its TMS bytes and the cycles queued for it
batch_flush_tap_sequence(j) ==
    IF j.tms_len # j.tdo_len \/ ~(j.tms_len < 390) THEN [j EXCEPT !.panic = TRUE]
    ELSE IF j.tms_len = 0 THEN j
    ELSE [j EXCEPT !.placed = Append(@, [bits |-> (j.send_bits % 256)
                                                   + 256 * ((j.send_bits \div 256) % 256),
                                        tms_bytes |-> j.tms_len,
                                        cycles |-> j.queued]),
                   !.tms_len = 0,
                   !.tdo_len = 0,
                   !.send_bits = 0,
                   !.queued = 0,
                   !.recv_bytes = @ + j.tms_len]

BatchDone(name, a, j) ==
    /\ op' = name
    /\ args' = a
    /\ pipe' = [j EXCEPT !.calls = IF name = "send_data" THEN @ ELSE @ + 1]
    /\ aborted' = j.panic
    /\ UNCHANGED <<state, from, tap, tapFrom, pins, calls, cable, tdoIn, taps,
                   active, chain, chainFrom, cycles, ret>>

batch_change_mode ==
    /\ ~aborted
    /\ pipe.calls < BatchMaxCalls
    /\ \E n \in BatchTmsLens, tdo \in BOOLEAN :
          BatchDone("change_mode", [len |-> n, tdo |-> tdo],
                    batch_tap_sequence(pipe, (n \div 8) + (IF n % 8 # 0 THEN 1 ELSE 0),
                                       (n \div 8) + (IF n % 8 # 0 THEN 1 ELSE 0), n))

batch_write_data ==
    /\ ~aborted
    /\ pipe.calls < BatchMaxCalls
    /\ \E len \in BatchDataLens, bits \in {1, 8}, pause_after \in BOOLEAN :
          BatchDone("write_data", [len |-> len, bits |-> bits, pause_after |-> pause_after],
                    batch_send_tdo(pipe, len, bits, pause_after))

batch_queue_read ==
    /\ ~aborted
    /\ pipe.calls < BatchMaxCalls
    /\ \E len \in BatchDataLens, last \in {1, 8} :
          LET bits == (len - 1) * 8 + last
          IN  BatchDone("queue_read", [bits |-> bits],
                        batch_send_tdo([pipe EXCEPT !.reads = @ + 1], (bits + 7) \div 8,
                                       IF bits % 8 = 0 THEN 8 ELSE bits % 8, FALSE))

batch_queue_read_write ==
    /\ ~aborted
    /\ pipe.calls < BatchMaxCalls
    /\ \E len \in BatchDataLens, bits \in {1, 8}, pause_after \in BOOLEAN :
          BatchDone("queue_read_write",
                    [len |-> len, bits |-> bits, pause_after |-> pause_after],
                    batch_send_tdo([pipe EXCEPT !.reads = @ + 1], len, bits, pause_after))

\* JLink::send_data, as finish_read and flush call it: flush_tap_sequence,
\* then the buffer is written to the adapter
batch_send_data ==
    /\ ~aborted
    /\ op \notin {"ready", "send_data"}
    /\ BatchDone("send_data", <<>>, batch_flush_tap_sequence(pipe))

BatchInit ==
    /\ cable = "jlink"
    /\ pipe = [tms_len |-> 0, tdo_len |-> 0, send_bits |-> 0, queued |-> 0,
               recv_bytes |-> 0, reads |-> 0, placed |-> <<>>, calls |-> 0,
               panic |-> FALSE]
    /\ state \in {ShiftDR, ShiftIR}
    /\ tap = state
    /\ tapFrom = state
    /\ from = state
    /\ op = "ready"
    /\ args = <<>>
    /\ calls = <<>>
    /\ cycles = <<>>
    /\ tdoIn = <<>>
    /\ ret = <<>>
    /\ aborted = FALSE
    /\ pins = [tms |-> 0, tdi |-> 1]
    /\ taps = <<>>
    /\ active = 0
    /\ chain = <<>>
    /\ chainFrom = <<>>

BatchNext ==
    \/ batch_change_mode
    \/ batch_write_data
    \/ batch_queue_read
    \/ batch_queue_read_write
    \/ batch_send_data

BatchSpec == BatchInit /\ [][BatchNext]_vars

(***************************************************************************)
(* Taps with queued data-register reads (ChainSpec): every operation of    *)
(* Taps, over the JtagSM driver and a cable that queues reads up to a      *)
(* capacity in bytes, refuses the read that would reach it, and hands the  *)
(* queued reads back oldest first.  The operations other than              *)
(* queue_dr_read and finish_dr_read run before the first queue_dr_read.    *)
(***************************************************************************)
\* calls of queue_dr_read
DqMaxRequests == 3

\* the bytes of queued reads at which the cable refuses a read
DqCapacity == 4

\* the bits asked for, the TDO bits of a data-register scan, and the TDO
\* bits of the IR phase of detect
DqBits == {8, 16, 24}
DqStreams ==
    {[i \in 1..28 |-> IF i % 3 = 1 THEN 1 ELSE 0], [i \in 1..28 |-> i % 2]}
DqDetectStreams == {<<1, 0, 1, 0, 0>>, <<0>>}

\* samples packed eight to a byte, sample i at bit (i - 1) % 8 of byte
\* (i - 1) / 8, the bits above the last sample zero
PackLsb(samples) ==
    [k \in 1..((Len(samples) + 7) \div 8) |->
        Gpio_byte(samples, 8 * (k - 1) + 1,
                  IF 8 * k <= Len(samples) THEN 8 ELSE Len(samples) % 8)]

\* the cable's queue_read(bits), which would sample the TDO bits of
\* samples: refused when the bytes queued would reach the capacity, as
\* Mpsse::queue_read refuses at 4096
dq_queue_read(q, bits, samples, owner) ==
    IF ((bits + 7) \div 8)
           + QSum([k \in 1..Len(q.queue) |-> <<(q.queue[k].bits + 7) \div 8>>], 1)
           < DqCapacity
    THEN [q EXCEPT !.queue = Append(@, [bits |-> bits, data |-> PackLsb(samples),
                                        owner |-> owner]),
                   !.ok = TRUE]
    ELSE [q EXCEPT !.ok = FALSE]

\* the cable's finish_read(bits): the oldest queued read; with none
\* queued, or with another number of bits than it was queued with, the
\* call panics
dq_finish_read(q, bits) ==
    IF q.queue = <<>> \/ Head(q.queue).bits # bits \/ q.panic
    THEN [q EXCEPT !.panic = TRUE]
    ELSE [q EXCEPT !.queue = Tail(@),
                   !.out = Head(q.queue).data,
                   !.consumed = Append(@, Head(q.queue).owner)]

\* Taps and the cable's queue after a step, and what the step returns
DqOut(t, q, value) == [t |-> [t EXCEPT !.ret = value], q |-> q]

\* Taps::queue_dr_read(bits); tdo holds the TDO bits of the scan
t_queue_dr_read(t, q, bits, tdo) ==
    IF ~(t.active < Len(t.taps)) THEN DqOut(t_abort(t), q, FALSE)
    ELSE LET pad_bits == t.active
             discard_bits == Len(t.taps) - t.active - 1
             total_bits == pad_bits + bits
             owner == q.requests + 1
             sm1 == sm_change_mode(t.sm, Idle)
             q1 == IF discard_bits > 0
                   THEN dq_queue_read(q, discard_bits, SubSeq(tdo, 1, discard_bits),
                                      owner)
                   ELSE q
             sm2 == IF discard_bits > 0
                    THEN sm_queue_read(sm1, "Data", discard_bits, q1.ok) ELSE sm1
             q2 == dq_queue_read(q1, total_bits,
                                 SubSeq(tdo, discard_bits + 1, discard_bits + total_bits),
                                 owner)
             sm3 == sm_queue_read(sm2, "Data", total_bits, q2.ok)
         IN  IF discard_bits > 0 /\ ~q1.ok THEN DqOut(t_sm(t, sm2), q1, FALSE)
             ELSE IF ~q2.ok
             THEN DqOut(t_sm(t, sm3), [q2 EXCEPT !.dangling_read = TRUE], FALSE)
             ELSE DqOut(t_sm(t, sm3), [q2 EXCEPT !.queued_reads = @ + 1], TRUE)

\* Taps::finish_dr_read(bits); it is called with reads queued, so that
\* `self.queued_reads -= 1` does not pass below 0
t_finish_dr_read(t, q, bits) ==
    IF ~(t.active < Len(t.taps)) THEN DqOut(t_abort(t), q, <<>>)
    ELSE LET pad_bits == t.active
             discard_bits == Len(t.taps) - t.active - 1
             total_bits == pad_bits + bits
             q1 == IF discard_bits > 0 THEN dq_finish_read(q, discard_bits) ELSE q
             q2 == dq_finish_read(q1, total_bits)
             q3 == [q2 EXCEPT !.queued_reads = @ - 1]
             q4 == IF q3.queued_reads = 0 /\ q3.dangling_read
                   THEN [dq_finish_read(q3, discard_bits) EXCEPT !.dangling_read = FALSE,
                                                                  !.out = q2.out]
                   ELSE q3
         IN  IF q2.panic THEN DqOut(t_abort(t), q2, <<>>)
             ELSE IF q4.panic THEN DqOut(t_abort(t), q4, <<>>)
             ELSE DqOut(t, q4, q2.out)

\* what read_dr(bits) returns on a scan with the TDO bits of tdo: the bits
\* of its second read_reg
read_dr_value(t, bits, tdo) ==
    PackLsb(SubSeq(tdo, discard_after(t) + 1, discard_after(t) + bits))

\* One operation `name` on Taps and the queue has run and left r
ChainDone(name, a, r) ==
    /\ op' = name
    /\ args' = a
    /\ from' = state
    /\ tapFrom' = tap
    /\ calls' = r.t.sm.calls
    /\ tap' = CallsEffect(tap, CallsOf(r.t.sm.calls))
    /\ state' = r.t.sm.state
    /\ taps' = r.t.taps
    /\ active' = r.t.active
    /\ aborted' = r.t.aborted
    /\ ret' = r.t.ret
    /\ pipe' = r.q
    /\ UNCHANGED <<cable, cycles, tdoIn, pins, chain, chainFrom>>

\* the queue as an operation finds it
QueueSelf == [pipe EXCEPT !.consumed = <<>>, !.out = <<>>]

queue_dr_read ==
    /\ ~aborted
    /\ pipe.requests < DqMaxRequests
    /\ \E bits \in DqBits, tdo \in DqStreams :
          LET r == t_queue_dr_read(TapsSelf, QueueSelf, bits, tdo)
          IN  ChainDone("queue_dr_read", [bits |-> bits, tdo |-> tdo],
                        [r EXCEPT !.q.requests = @ + 1,
                                  !.q.refusals = IF r.t.ret = TRUE THEN @ ELSE @ + 1,
                                  !.q.expect =
                                      IF r.t.ret = TRUE
                                      THEN Append(@, [bits |-> bits,
                                                      owner |-> pipe.requests + 1,
                                                      want |-> read_dr_value(TapsSelf,
                                                                             bits, tdo)])
                                      ELSE @])

\* finish_dr_read for the oldest queue_dr_read that returned true
finish_dr_read ==
    /\ ~aborted
    /\ pipe.expect # <<>>
    /\ LET r == t_finish_dr_read(TapsSelf, QueueSelf, Head(pipe.expect).bits)
       IN  ChainDone("finish_dr_read", [bits |-> Head(pipe.expect).bits],
                     [r EXCEPT !.q.expect = Tail(@),
                               !.q.finished = Head(pipe.expect)])

\* Taps::detect on the chains of DqDetectStreams
chain_detect ==
    /\ ~aborted
    /\ op # "detect"
    /\ \E tdo \in DqDetectStreams :
          TapsDone("detect", [tdo |-> tdo, id_bit |-> 1], t_detect(TapsSelf, tdo, 1))

ChainInit ==
    /\ \E p \in {Reset, ShiftDR} :
          /\ tapFrom = p
          /\ tap = RunTap(p, <<1, 1, 1, 1, 1, 0>>)
    /\ state = Reset
    /\ from = Reset
    /\ op = "new"
    /\ args = <<>>
    /\ calls = <<[call |-> CallChangeMode(<<1, 1, 1, 1, 1, 0>>, TRUE),
                  at |-> Reset]>>
    /\ cable = "contract"
    /\ cycles = <<>>
    /\ tdoIn = <<>>
    /\ ret = 0
    /\ aborted = FALSE
    /\ pins = [tms |-> 0, tdi |-> 1]
    /\ taps = <<>>
    /\ active = 0
    /\ chain = <<>>
    /\ chainFrom = <<>>
    /\ pipe = [queue |-> <<>>, ok |-> TRUE, panic |-> FALSE, out |-> <<>>,
               consumed |-> <<>>, queued_reads |-> 0, dangling_read |-> FALSE,
               requests |-> 0, refusals |-> 0, expect |-> <<>>,
               finished |-> [bits |-> 0, owner |-> 0, want |-> <<>>]]

ChainNext ==
    \/ pipe.requests = 0 /\ TapsNext
    \/ pipe.requests = 0 /\ chain_detect
    \/ queue_dr_read
    \/ finish_dr_read

ChainSpec == ChainInit /\ [][ChainNext]_vars

(***************************************************************************)
(* Properties of the JtagSM driver (checked under Spec)                    *)
(***************************************************************************)
\* The length of the shortest non-empty TMS sequence that leads the TAP
\* from s to t: S holds the states k cycles away from s.
RECURSIVE StepsTo(_, _, _)
StepsTo(S, t, k) ==
    IF t \in S THEN k
    ELSE StepsTo({TapNext(x, b) : x \in S, b \in {0, 1}}, t, k + 1)

MinTmsLen(s, t) == StepsTo({TapNext(s, 0), TapNext(s, 1)}, t, 1)

\* C1: for distinct states s and t, change_mode(t) called in recorded state
\* s hands the cable one TMS sequence, and that sequence leads the standard
\* TAP controller from s to t.
C1_ChangeModeEndsAtTarget ==
    (op = "change_mode" /\ from # args.state) =>
        /\ Len(calls) = 1
        /\ calls[1].call.fn = "change_mode"
        /\ RunTap(from, calls[1].call.tms) = args.state

\* C2: for distinct states s and t, the TMS sequence change_mode(t) emits
\* from s is as short as any TMS sequence leading from s to t.
C2_ChangeModeIsShortest ==
    (op = "change_mode" /\ from # args.state) =>
        Len(calls[1].call.tms) = MinTmsLen(from, args.state)

\* C3: after new, and after every change_mode and mode_reset, the recorded
\* state is the state of the TAP that received the TMS bits handed to the
\* cable.
C3_RecordedStateIsTapState ==
    op \in {"new", "mode_reset", "change_mode"} => state = tap

\* C4: the driver's transition table is the IEEE 1149.1 table: in every
\* state the driver records (each of the 16 is recorded after change_mode
\* to it), the node's successors on TMS 0 and TMS 1 are the standard ones.
C4_GraphIsStandard ==
    \A b \in {0, 1} : Edge(state, b) = TapNext(state, b)

\* C5: mode_reset and new hand the cable exactly the TMS sequence
\* 1,1,1,1,1,0 with TDI high, and leave the recorded state Reset whatever
\* it was before.
C5_ResetSequence ==
    op \in {"new", "mode_reset"} =>
        /\ Len(calls) = 1
        /\ calls[1].call = [fn |-> "change_mode",
                            tms |-> <<1, 1, 1, 1, 1, 0>>, tdo |-> TRUE]
        /\ state = 0

\* C5 witness: a mode_reset called in recorded state ShiftIR
C5_Witness == op = "mode_reset" /\ from = 11 /\ state = 0

\* The operations that shift a register
ShiftOps ==
    {"read_reg", "queue_read", "write_reg", "read_write_reg", "queue_read_write"}

\* C6: every shifting operation on register R makes its shift call last,
\* after mode changes only and with the recorded state Shift-R, and returns
\* with the recorded state Pause-R if pause_after was given and true, and
\* Shift-R otherwise.
C6_ShiftInShiftState ==
    op \in ShiftOps =>
        LET n == Len(calls)
            shiftR == IF args.reg = "Data" THEN 4 ELSE 11
            pauseR == IF args.reg = "Data" THEN 6 ELSE 13
            paused == op \notin {"read_reg", "queue_read"} /\ args.pause_after
        IN  /\ n >= 1
            /\ calls[n].call.fn \in
                  {"read_data", "queue_read", "write_data", "read_write_data",
                   "queue_read_write"}
            /\ calls[n].at = shiftR
            /\ \A i \in 1..(n - 1) : calls[i].call.fn = "change_mode"
            /\ state = IF paused THEN pauseR ELSE shiftR

\* C6 witness: a write_reg of the instruction register with pause_after,
\* called in recorded state PauseDR
C6_Witness ==
    /\ op = "write_reg"
    /\ args.reg = "Instruction"
    /\ args.pause_after
    /\ from = 6
    /\ Len(calls) = 2
    /\ state = 13

\* C28: change_mode(PauseDR) called with Reset recorded hands the cable
\* exactly the TMS values 0, 1, 0, 1, 0, and change_mode(ShiftIR) called with
\* ShiftDR recorded exactly 1, 1, 1, 1, 0, 0, each in one call.
C28_ChangeModePaths ==
    op = "change_mode" =>
        /\ (from = Reset /\ args.state = PauseDR) =>
               /\ Len(calls) = 1
               /\ calls[1].call.fn = "change_mode"
               /\ calls[1].call.tms = <<0, 1, 0, 1, 0>>
        /\ (from = ShiftDR /\ args.state = ShiftIR) =>
               /\ Len(calls) = 1
               /\ calls[1].call.fn = "change_mode"
               /\ calls[1].call.tms = <<1, 1, 1, 1, 0, 0>>

C28_Witness ==
    /\ op = "change_mode"
    /\ from = ShiftDR
    /\ args.state = ShiftIR
    /\ state = ShiftIR
    /\ Len(calls) = 1

(***************************************************************************)
(* Properties of the cable back-ends (checked under CableSpec)             *)
(***************************************************************************)
\* the number of bits a write call is given, and those bits, bit 0 of
\* byte 0 first
NumBits(a) == (Len(a.data) - 1) * 8 + a.bits
DataBits(a) ==
    [i \in 1..NumBits(a) |-> Bit(a.data[((i - 1) \div 8) + 1], (i - 1) % 8)]

\* The cycles of cyc, counted from base + 1, on which a standard TAP that
\* is in state s before them shifts its register: those it is in ShiftDR
\* or ShiftIR for
RECURSIVE ShiftCycles(_, _, _)
ShiftCycles(s, cyc, base) ==
    IF cyc = <<>> THEN <<>>
    ELSE (IF s \in {ShiftDR, ShiftIR} THEN <<base + 1>> ELSE <<>>)
             \o ShiftCycles(TapNext(s, Head(cyc).tms), Tail(cyc), base + 1)

\* C7: on every back-end a write_data or read_write_data with pause_after,
\* begun in ShiftDR or ShiftIR, leaves a standard TAP in PauseDR or PauseIR,
\* the state the driver records.
C7_PauseAfterReachesPause ==
    (op \in {"write_data", "read_write_data"} /\ args.pause_after /\ ~aborted) =>
        /\ state = (IF from = ShiftDR THEN PauseDR ELSE PauseIR)
        /\ tap = state

\* C8: on every back-end write_data(d, bits_in_last, pause_after) shifts
\* into the register exactly the (len(d) - 1) * 8 + bits_in_last bits of d,
\* bit 0 of byte 0 first.
C8_WriteDataBits ==
    (op = "write_data" /\ ~aborted) =>
        LET on == ShiftCycles(tapFrom, cycles, 0)
        IN  [i \in 1..Len(on) |-> cycles[on[i]].tdi] = DataBits(args)

\* C9: on every back-end (the earlier jtagkey.rs, which leaves
\* read_write_data unimplemented, set aside) read_write_data returns, and
\* returns the TDO samples of the n cycles on which the n data bits were
\* shifted, sample i at bit i, in ceil(n / 8) bytes.
C9_ReadWriteSamples ==
    (op = "read_write_data" /\ cable # "jtagkey") =>
        LET on == ShiftCycles(tapFrom, cycles, 0)
        IN  /\ ~aborted
            /\ Len(on) = NumBits(args)
            /\ ret = PackLsb([i \in 1..Len(on) |-> tdoIn[on[i]]])

\* C10: on every back-end read_data(bits) returns ceil(bits / 8) bytes, bit
\* i of which is the i-th TDO sample, the bits above the last being zero.
C10_ReadDataSamples ==
    op = "read_data" =>
        /\ ~aborted
        /\ ret = PackLsb([i \in 1..args.bits |-> tdoIn[i]])

IsShift(c) == c.fn # "change_mode"
ShiftCalls(cs) == SelectSeq(CallsOf(cs), IsShift)

\* the bits the write calls of cs hand the cable, in order, each buffer
\* bit 0 of byte 0 first
RECURSIVE WrittenBits(_)
WrittenBits(cs) ==
    IF cs = <<>> THEN <<>>
    ELSE (IF Head(cs).fn \in {"write_data", "read_write_data"}
          THEN DataBits(Head(cs)) ELSE <<>>) \o WrittenBits(Tail(cs))

\* the first n bits of buf, bit 0 of byte 0 first, and n ones
PayloadBits(buf, n) ==
    [i \in 1..n |-> Bit(buf[((i - 1) \div 8) + 1], (i - 1) % 8)]
OneBits(n) == [i \in 1..n |-> 1]

\* C12: the bits write_ir shifts into the IR are one per IR bit of the
\* TAPs after the active one, all ones, then the active TAP's IR length of
\* payload bits unchanged, then one per IR bit of the TAPs before it, all
\* ones.
C12_WriteIrBits ==
    (op = "write_ir" /\ ~aborted) =>
        WrittenBits(CallsOf(calls))
            = OneBits(irlen_sum(taps, active + 1, Len(taps)))
                  \o PayloadBits(args.ir, taps[active + 1])
                  \o OneBits(irlen_sum(taps, 0, active))

\* C13: the bits write_dr shifts into the DR are the n payload bits
\* unchanged, then one 1 per TAP before the active one.
C13_WriteDrBits ==
    (op = "write_dr" /\ ~aborted) =>
        WrittenBits(CallsOf(calls))
            = PayloadBits(args.dr, (Len(args.dr) - 1) * 8 + args.bits)
                  \o OneBits(active)

\* C14: of the shifts of write_ir, write_dr and read_write_dr only the last
\* is made with pause_after, and the recorded state on return is Idle.
C14_PauseOnLastShiftOnly ==
    (op \in {"write_ir", "write_dr", "read_write_dr"} /\ ~aborted) =>
        LET sh == ShiftCalls(calls)
        IN  /\ sh # <<>>
            /\ \A j \in 1..Len(sh) :
                  IF j = Len(sh)
                  THEN sh[j].fn \in {"write_data", "read_write_data"}
                           /\ sh[j].pause_after
                  ELSE sh[j].fn = "read_data" \/ ~sh[j].pause_after
            /\ state = Idle

C14_Witness ==
    /\ op = "write_ir"
    /\ ~aborted
    /\ Len(ShiftCalls(calls)) >= 2
    /\ state = Idle

\* C15: read_ir and read_dr(bits) read and drop the bits of the TAPs after
\* the active one (their IR lengths, or one bit each), with no read at all
\* when there are none, then return a read of the active TAP's IR length,
\* or of `bits` bits, and leave the recorded state ShiftIR, or ShiftDR.
C15_ReadsDropThenRead ==
    (op \in {"read_ir", "read_dr"} /\ ~aborted) =>
        LET sh == ShiftCalls(calls)
            drop == IF op = "read_ir" THEN irlen_sum(taps, active + 1, Len(taps))
                    ELSE Len(taps) - active - 1
            want == IF op = "read_ir" THEN taps[active + 1] ELSE args.bits
            shift == IF op = "read_ir" THEN ShiftIR ELSE ShiftDR
        IN  /\ [j \in 1..Len(sh) |-> sh[j].bits]
                   = (IF drop > 0 THEN <<drop>> ELSE <<>>) \o <<want>>
            /\ \A j \in 1..Len(sh) : sh[j].fn = "read_data"
            /\ \A j \in 1..Len(calls) :
                  IsShift(calls[j].call) => calls[j].at = shift
            /\ ret = Len(calls)
            /\ state = shift

C15_Witness ==
    /\ op = "read_dr"
    /\ ~aborted
    /\ Len(taps) = 2
    /\ active = 0
    /\ Len(ShiftCalls(calls)) = 2

\* C18: a select_tap(index, ir) with index out of range aborts with no
\* cable call made and the active index as it was; with index in range it
\* hands the cable the reset sequence first, records index as the active
\* one, and then does what write_ir(ir) does from there.
C18_SelectTapOrder ==
    [][op' = "select_tap" =>
          IF args'.tap >= Len(taps)
          THEN aborted' /\ calls' = <<>> /\ active' = active /\ state' = state
                   /\ tap' = tap
          ELSE LET reset == [call |-> CallChangeMode(<<1, 1, 1, 1, 1, 0>>, TRUE),
                             at |-> state]
                   w == t_write_ir([sm |-> [state |-> Reset, calls |-> <<reset>>],
                                    taps |-> taps, active |-> args'.tap,
                                    aborted |-> FALSE, ret |-> 0], args'.ir)
               IN  /\ calls' = w.sm.calls
                   /\ calls'[1] = reset
                   /\ active' = args'.tap
                   /\ aborted' = w.aborted
                   /\ state' = w.sm.state]_vars

C18_Witness ==
    /\ op = "select_tap"
    /\ taps # <<>>
    /\ args.tap >= Len(taps)
    /\ aborted
    /\ calls = <<>>

\* C19: a write_ir(ir) with the active index out of range, or with ir not
\* ceil(irlen / 8) bytes long, aborts with no cable call made and the
\* recorded state as it was.
C19_WriteIrAsserts ==
    (op = "write_ir"
        /\ (active >= Len(taps) \/ Len(args.ir) # (taps[active + 1] + 7) \div 8)) =>
        /\ aborted
        /\ calls = <<>>
        /\ state = from
        /\ tap = tapFrom

C19_Witness ==
    /\ op = "write_ir"
    /\ active < Len(taps)
    /\ Len(args.ir) # (taps[active + 1] + 7) \div 8
    /\ aborted
    /\ state = from

\* C16: over a chain whose active DR is a shift register of n bits and
\* whose other TAPs are in BYPASS, read_write_dr(dr, bits) leaves the n
\* payload bits in the DR and returns, in its first n bits, what the DR
\* held: the payload of the read_write_dr before it comes back unchanged,
\* whatever the number of TAPs and the active index.
C16_RoundTrip ==
    (op = "read_write_dr" /\ ~aborted /\ chain # <<>>) =>
        LET n == (Len(args.dr) - 1) * 8 + args.bits
        IN  /\ ChainDr(chain) = PayloadBits(args.dr, n)
            /\ Len(ret) * 8 >= n
            /\ PayloadBits(ret, n) = ChainDr(chainFrom)

(***************************************************************************)
(* Properties of the queued reads (checked under QueueSpec)                *)
(***************************************************************************)
\* C17: on every back-end with a queue, whatever the order of the queue
\* calls and the finish_read calls, a finish_read given the bit count of
\* the oldest unfinished request (as every finish_read before it was)
\* returns what read_data / read_write_data would have returned for that
\* request when it was queued.
C17_FinishEqualsSynchronous ==
    (op = "finish_read" /\ ~pipe.misused /\ ~pipe.flushed) =>
        /\ aborted = pipe.matched.aborted
        /\ ~aborted => ret = pipe.matched.ret

\* C20: on every back-end with a queue, a finish_read whose bits differ
\* from the bits of the request it answers panics.
C20_FinishWrongBitsAborts ==
    (op = "finish_read" /\ args.bits # pipe.matched.bits) => aborted

\* C21: on every back-end a write_data or read_write_data whose
\* bits_in_last_byte is 0 or more than 8 panics with no cycle clocked.
C21_BadBitsAbort ==
    (op \in {"write_data", "read_write_data"} /\ args.bits \notin 1..8) =>
        /\ aborted
        /\ cycles = <<>>

\* C22: on every back-end with a queue, a read_data or read_write_data
\* made while reads are queued and not finished either panics or returns
\* its own samples, never the data of the oldest queued request.
C22_SyncReadNotStale ==
    (op \in {"read_data", "read_write_data"} /\ pipe.want # <<>> /\ ~aborted) =>
        (ret = pipe.matched.ret \/ ret # Head(pipe.want).ret)

\* C23: a queue_read or queue_read_write is refused only while reads are
\* outstanding, so that draining them with finish_read and retrying the
\* same request can come to TRUE; a refusal with nothing outstanding
\* leaves the cable as it was, and the retry is refused again, for ever.
C23_RefusedOnlyWhileOutstanding ==
    (op \in {"queue_read", "queue_read_write"} /\ ~aborted /\ ret = FALSE) =>
        pipe.want # <<>>

\* C24: after flush has been called with queued reads outstanding, each
\* finish_read still returns what its request, the oldest outstanding,
\* would have returned as a synchronous call.
C24_FlushKeepsQueuedReads ==
    (op = "finish_read" /\ ~pipe.misused /\ pipe.flushed) =>
        /\ aborted = pipe.matched.aborted
        /\ ~aborted => ret = pipe.matched.ret

\* C25: on every back-end a write_data or read_write_data with pause_after
\* whose bit count n is a multiple of 8 clocks the n data bits with TMS low
\* but on the n-th, where TMS is high, and then exactly one more cycle, with
\* TDI high and TMS low, whose TDO sample is not among those returned.
C25_ExtraClockAfterWholeBytes ==
    (op \in {"write_data", "read_write_data"} /\ args.pause_after /\ args.bits = 8
        /\ ~aborted) =>
        LET n == 8 * Len(args.data)
        IN  /\ Len(cycles) = n + 1
            /\ \A k \in 1..n : cycles[k].tms = (IF k = n THEN 1 ELSE 0)
            /\ cycles[n + 1] = Cycle(0, 1)
            /\ op = "read_write_data" =>
                   ret = PackLsb([i \in 1..n |-> tdoIn[i]])

(***************************************************************************)
(* Properties of the scenarios (checked under ScenarioSpec)                *)
(***************************************************************************)
\* C26: on the chain of IR lengths 4, 5 with TAP 0 active, write_ir([0x0E])
\* shifts 5 ones, then the bits 0, 1, 1, 1, and leaves the recorded state
\* Idle.
C26_WriteIrFirstOfTwo ==
    (op = "write_ir" /\ taps = <<4, 5>> /\ active = 0 /\ args.ir = <<14>>) =>
        /\ ~aborted
        /\ WrittenBits(CallsOf(calls)) = <<1, 1, 1, 1, 1, 0, 1, 1, 1>>
        /\ \A i \in 1..Len(calls) : IsShift(calls[i].call) => calls[i].at = ShiftIR
        /\ state = Idle

C26_Witness ==
    /\ op = "write_ir"
    /\ taps = <<4, 5>>
    /\ active = 0
    /\ args.ir = <<14>>
    /\ Len(calls) > 2
    /\ state = Idle

\* C27: on the chain of IR lengths 4, 5, select_tap(1, [0x1F]) drives the
\* reset sequence and then shifts 9 bits into the IR, all ones (the 5 of
\* the payload and 4 for TAP 0), the last with pause_after, and ends in
\* Idle.
C27_SelectSecondOfTwo ==
    (op = "select_tap" /\ taps = <<4, 5>> /\ args.tap = 1 /\ args.ir = <<31>>) =>
        /\ ~aborted
        /\ calls[1].call = CallChangeMode(<<1, 1, 1, 1, 1, 0>>, TRUE)
        /\ WrittenBits(CallsOf(calls)) = OneBits(9)
        /\ state = Idle

\* C29: detect on a chain whose IR-phase TDO bits are 0, 1, 0, 0, 0, 1 and
\* then ones passes over the first 0, finds one IR of length 4, stops on
\* the seventh bit and stores the chain [4].
C29_DetectOneTap ==
    (op = "detect" /\ args.tdo = <<0, 1, 0, 0, 0, 1>>) =>
        /\ ~aborted
        /\ taps = <<4>>
        /\ Cardinality({i \in 1..Len(calls) :
                           /\ calls[i].call.fn = "read_data"
                           /\ calls[i].at = ShiftIR}) = 7

\* C30: a flush of the J-Link cable with one change_mode of TMS 1, 0, 1 and
\* TDI high batched, and nothing else, writes exactly the bytes 0xCD, 0x03,
\* 0x00, 0x05, 0x07 and waits for exactly one byte of response.
C30_TapSequenceBytes ==
    (op = "flush" /\ pipe.flushed = <<[tms |-> <<1, 0, 1>>, tdo |-> TRUE]>>) =>
        /\ pipe.sent = <<205, 3, 0, 5, 7>>
        /\ pipe.expected = 1

C30_Witness ==
    /\ op = "flush"
    /\ pipe.flushed = <<[tms |-> <<1, 0, 1>>, tdo |-> TRUE]>>
    /\ Len(pipe.sent) = 5
    /\ pipe.jl.tms_buf = <<>>

\* the TDO bits of the IR phase on a chain whose IRs, in the order they
\* leave on TDO, have the lengths of ls and capture a 1 followed by zeros
RECURSIVE CaptureStream(_)
CaptureStream(ls) ==
    IF ls = <<>> THEN <<>>
    ELSE <<1>> \o [i \in 1..(Head(ls) - 1) |-> 0] \o CaptureStream(Tail(ls))

\* a bit sequence without the ones at its end
RECURSIVE StripOnes(_)
StripOnes(s) ==
    IF s = <<>> \/ s[Len(s)] = 0 THEN s ELSE StripOnes(SubSeq(s, 1, Len(s) - 1))

\* the chains of at most three IRs, each of 2..DetectMaxBits bits
DetectChains ==
    UNION {[1..n -> 2..DetectMaxBits] : n \in 1..3}

\* those chains with their capture bits
DetectCaptures == {[irlen |-> ls, tdo |-> CaptureStream(ls)] : ls \in DetectChains}

\* the IR reads of the last operation
IrReads == Cardinality({i \in 1..Len(calls) :
                           /\ calls[i].call.fn = "read_data"
                           /\ calls[i].at = ShiftIR})

\* C31: detect on a chain of n >= 1 IRs of at least 2 bits, each capturing a
\* 1 followed by zeros, with ones following on TDO, stores exactly the n
\* lengths, last observed first, whatever chain was stored before (detect
\* is taken from every state of the scenario, with and without TAPs stored).
C31_DetectStoresReversed ==
    op = "detect" =>
        LET seen == StripOnes(args.tdo)
        IN  \A c \in DetectCaptures :
               seen = c.tdo =>
                   /\ ~aborted
                   /\ Len(taps) = Len(c.irlen)
                   /\ \A i \in 1..Len(c.irlen) :
                         taps[i] = c.irlen[Len(c.irlen) + 1 - i]

C31_Witness ==
    /\ op = "detect"
    /\ args.tdo = <<1, 0, 1, 0, 0>>
    /\ taps = <<3, 2>>
    /\ ~aborted

\* the number of the first bit of s, from the second on, that is a 1 and
\* follows a 1; s ends in two ones
RECURSIVE FirstDouble(_, _)
FirstDouble(s, k) ==
    IF s[k - 1] # 0 /\ s[k] # 0 THEN k ELSE FirstDouble(s, k + 1)

\* C32: the first loop of detect reads bits up to the first 1 that follows
\* a 1 and no further, and stops on no bit before that one; on a stream of
\* ones it reads two bits and stores no TAP.
C32_DetectStopsOnTwoOnes ==
    op = "detect" =>
        /\ IrReads = FirstDouble(args.tdo \o <<1, 1>>, 2)
        /\ StripOnes(args.tdo) = <<>> => (IrReads = 2 /\ taps = <<>>)

(***************************************************************************)
(* Properties of the path search (checked under Spec)                      *)
(***************************************************************************)
\* the node the driver's table leads to from s along the TMS bits of q
RECURSIVE RunGraph(_, _)
RunGraph(s, q) ==
    IF q = <<>> THEN s ELSE RunGraph(Edge(s, Head(q)), Tail(q))

\* p comes before q, or is q, in the order that compares the first bit
\* they differ in, 0 before 1; p and q have the same length
LexLeq(p, q) ==
    \/ p = q
    \/ \E i \in 1..Len(p) :
          /\ p[i] < q[i]
          /\ \A j \in 1..(i - 1) : p[j] = q[j]

\* C34: the TMS bits change_mode hands the cable for a target other than
\* the recorded state lead to the target in the driver's table, and among
\* the sequences of their length that do they are the first in the order
\* that puts 0 before 1 at the first bit two sequences differ in.
C34_PathIsLexFirst ==
    (op = "change_mode" /\ from # args.state) =>
        /\ Len(calls) = 1
        /\ calls[1].call.fn = "change_mode"
        /\ LET p == calls[1].call.tms
           IN  /\ RunGraph(from, p) = args.state
               /\ \A q \in [1..Len(p) -> {0, 1}] :
                     RunGraph(from, q) = args.state => LexLeq(p, q)

C34_Witness ==
    /\ op = "change_mode"
    /\ from = SelectDR
    /\ args.state = SelectIR
    /\ calls[1].call.tms = <<0, 1, 1, 1, 1>>

C37_StatusAbortsBelow1500 ==
    op = "get_status" =>
        (aborted <=> (args.data[1] + 256 * args.data[2]) < 1500)

(***************************************************************************)
(* Properties of the MPSSE command buffer (checked under BufferSpec)       *)
(***************************************************************************)
\* C36: after every change_mode, write_data, queue_read and
\* queue_read_write of the batching MPSSE back-end the pending command
\* buffer holds at most 4096 bytes.
C36_BufferAtMost4096 ==
    op \in {"change_mode", "write_data", "queue_read", "queue_read_write"} =>
        pipe.buffer_len <= 4096

(***************************************************************************)
(* Properties of the J-Link TAP sequence on large data (checked under      *)
(* BatchSpec)                                                              *)
(***************************************************************************)
\* C38: no J-Link call that carries fewer than 390 bytes, and no sending
\* of what such calls batched, fails an assertion; every 0xCD command
\* placed in the send buffer has fewer than 390 TMS bytes and a bit count
\* equal to the number of cycles queued for it.
C38_BatchedCallsNeverAssert ==
    /\ ~aborted
    /\ \A k \in 1..Len(pipe.placed) :
          /\ pipe.placed[k].tms_bytes < 390
          /\ pipe.placed[k].bits = pipe.placed[k].cycles

(***************************************************************************)
(* Properties of Taps with queued reads (checked under ChainSpec)          *)
(***************************************************************************)
\* C33: the descriptor list changes only in add_tap, which appends one
\* descriptor and leaves the others and the active index as they were, and
\* in detect; select_tap, write_ir, read_ir, write_dr, read_dr,
\* read_write_dr, queue_dr_read and finish_dr_read leave it unchanged.
C33_TapsListFrame ==
    [][/\ op' = "add_tap" =>
              /\ Len(taps') = Len(taps) + 1
              /\ SubSeq(taps', 1, Len(taps)) = taps
              /\ taps'[Len(taps')] = args'.irlen
              /\ active' = active
       /\ op' \notin {"add_tap", "detect"} => taps' = taps]_vars

\* C33 witness: a second descriptor added, and a read queued on the two
C33_Witness ==
    /\ op = "queue_dr_read"
    /\ taps = <<5, 8>>
    /\ ret = TRUE

\* C39: where every queue_dr_read returned true, finish_dr_read(bits)
\* returns what read_dr(bits) would have returned where queue_dr_read(bits)
\* was called: the bits that follow one bit for each TAP after the active
\* one, and no more than `bits` of them.
C39_QueuedReadIsReadDr ==
    (op = "finish_dr_read" /\ pipe.refusals = 0) =>
        /\ ~aborted
        /\ ret = pipe.finished.want

\* C40: after every queue_dr_read, refused or not, and every
\* finish_dr_read on a cable of bounded capacity, the count of queued
\* reads is not negative, the cable holds no queued read when the count is
\* 0, and finish_dr_read ends normally having taken from the cable the
\* reads its own queue_dr_read queued.
C40_QueueBookkeeping ==
    op \in {"queue_dr_read", "finish_dr_read"} =>
        /\ pipe.queued_reads >= 0
        /\ pipe.queued_reads = 0 => pipe.queue = <<>>
        /\ op = "finish_dr_read" =>
               /\ ~aborted
               /\ LET own == IF Len(taps) - active - 1 > 0 THEN 2 ELSE 1
                  IN  /\ Len(pipe.consumed) >= own
                      /\ \A k \in 1..own : pipe.consumed[k] = pipe.finished.owner

=============================================================================
